---- MODULE Spec2Model ----
(***************************************************************************)
(* Jabir, the Fresh Touch Laundry chat bot: src/app.py (the /jabir/chat    *)
(* endpoint and the per-session histories) and src/bot.py (language        *)
(* detection, the pricing fetch, the small-talk and FAQ matchers, the      *)
(* generative fallback).                                                   *)
(*                                                                         *)
(* A Python str is modelled as the sequence of its Unicode code points, so *)
(* that len, lower, strip, split, "in", capitalize and the Arabic-block    *)
(* test of detect_language are computed as Python computes them.  ASCII    *)
(* literals are written S("..."); Arabic literals are written Ar("...") in *)
(* the Buckwalter transliteration (one ASCII character per Arabic code     *)
(* point); any other character is written as its code point, <<128522>>.   *)
(***************************************************************************)
EXTENDS Integers, Sequences, FiniteSets, TLC

\* ------------------------------------------------------------------------
\* Text literals
\* ------------------------------------------------------------------------

\* The printable ASCII characters 32..126 without the double quote (34), the
\* backslash (92) and the backquote (96), in code order.
Printable ==
    " !" \o "#$%&'()*+,-./0123456789:;<=>?@ABCDEFGHIJKLMNOPQRSTUVWXYZ["
         \o "]^_" \o "abcdefghijklmnopqrstuvwxyz{|}~"

AsciiCode ==
    [c \in {SubSeq(Printable, i, i) : i \in 1..Len(Printable)} |->
        LET i == CHOOSE j \in 1..Len(Printable) : SubSeq(Printable, j, j) = c
        IN  IF i <= 2 THEN 31 + i ELSE IF i <= 59 THEN 32 + i
            ELSE IF i <= 62 THEN 33 + i ELSE 34 + i]

\* The code points of an ASCII literal.
S(str) == [i \in 1..Len(str) |-> AsciiCode[SubSeq(str, i, i)]]

\* Buckwalter transliteration of the Arabic block (U+060C, U+061F,
\* U+0621..U+063A, U+0640..U+0652); the space stands for itself.
ArLatin == ",?'|>&<}AbptvjHxd*rzs$SDTZEg_fqklmnhwYyFNKaui~o "
ArCodes ==
    << 1548, 1567, 1569, 1570, 1571, 1572, 1573, 1574, 1575, 1576, 1577, 1578,
       1579, 1580, 1581, 1582, 1583, 1584, 1585, 1586, 1587, 1588, 1589, 1590,
       1591, 1592, 1593, 1594, 1600, 1601, 1602, 1603, 1604, 1605, 1606, 1607,
       1608, 1609, 1610, 1611, 1612, 1613, 1614, 1615, 1616, 1617, 1618, 32 >>

ArabicCode ==
    [c \in {SubSeq(ArLatin, i, i) : i \in 1..Len(ArLatin)} |->
        ArCodes[CHOOSE j \in 1..Len(ArLatin) : SubSeq(ArLatin, j, j) = c]]

\* The code points of an Arabic literal.
Ar(str) == [i \in 1..Len(str) |-> ArabicCode[SubSeq(str, i, i)]]

NL == <<10>>

\* ------------------------------------------------------------------------
\* Python str operations, on code-point sequences
\* ------------------------------------------------------------------------

\* Python's None, and a value that is not None (Optional[str], Optional[dict]).
None == <<>>
Some(v) == <<v>>

SetMin(set) == CHOOSE x \in set : \A y \in set : x <= y

\* str.lower(): A..Z become a..z.  The Arabic block has no case; the other
\* characters of the modelled texts (digits, punctuation, emoji) are uncased.
lower(s) == [i \in 1..Len(s) |-> IF s[i] \in 65..90 THEN s[i] + 32 ELSE s[i]]

\* str.capitalize(): the first character upper-cased, the rest lower-cased.
capitalize(s) ==
    [i \in 1..Len(s) |->
        IF i = 1 THEN (IF s[i] \in 97..122 THEN s[i] - 32 ELSE s[i])
        ELSE IF s[i] \in 65..90 THEN s[i] + 32 ELSE s[i]]

\* The characters str.strip() and str.split() treat as whitespace
\* (str.isspace): the ASCII ones, U+0085, U+00A0 and the Unicode spaces.
Whitespace ==
    {9, 10, 11, 12, 13, 28, 29, 30, 31, 32, 133, 160, 5760} \cup (8192..8202)
        \cup {8232, 8233, 8239, 8287, 12288}

\* str.strip()
strip(s) ==
    LET n == Len(s)
        kept(i) == s[i] \notin Whitespace
    IN  IF \A i \in 1..n : ~kept(i) THEN <<>>
        ELSE LET lead == CHOOSE k \in 0..n : kept(k + 1) /\ \A j \in 1..k : ~kept(j)
                 trail == CHOOSE k \in 0..n : kept(n - k) /\ \A j \in 1..k : ~kept(n + 1 - j)
             IN  SubSeq(s, lead + 1, n - trail)

\* str.split(): the maximal runs of non-whitespace characters, in order.
split(s) ==
    LET starts == {i \in 1..Len(s) :
                      s[i] \notin Whitespace /\ (i = 1 \/ s[i - 1] \in Whitespace)}
        stop(i) == SetMin({j \in i..Len(s) :
                      j = Len(s) \/ s[j + 1] \in Whitespace})
        RECURSIVE words(_)
        words(from) ==
            LET rest == {i \in starts : i >= from}
            IN  IF rest = {} THEN <<>>
                ELSE LET i == SetMin(rest)
                     IN  <<SubSeq(s, i, stop(i))>> \o words(stop(i) + 1)
    IN  words(1)

\* Python's "sub in text" on two strings.
contains(sub, text) ==
    \/ sub = <<>>
    \/ \E i \in 0..(Len(text) - Len(sub)) :
           text[i + 1] = sub[1] /\ SubSeq(text, i + 1, i + Len(sub)) = sub

\* any(w in text for w in words)
any_in(words, text) == \E k \in 1..Len(words) : contains(words[k], text)

\* Python's "text in list" on a list (or tuple) of strings.
member(text, list) == \E k \in 1..Len(list) : list[k] = text

\* str.startswith
startswith(text, prefix) ==
    Len(prefix) <= Len(text) /\ SubSeq(text, 1, Len(prefix)) = prefix

\* str.rfind(sub): the highest 0-based index where sub starts, or -1.
rfind(text, sub) ==
    LET last == Len(text) - Len(sub)
        at(i) == SubSeq(text, i + 1, i + Len(sub)) = sub
    IN  IF ~\E k \in 0..last : at(last - k) THEN -1
        ELSE last - (CHOOSE k \in 0..last : at(last - k) /\ \A j \in 0..(k - 1) : ~at(last - j))

\* sep.join(parts)
RECURSIVE join(_, _)
join(sep, parts) ==
    IF parts = <<>> THEN <<>>
    ELSE IF Len(parts) = 1 THEN parts[1]
    ELSE parts[1] \o sep \o join(sep, Tail(parts))

\* text.split("\n"): the lines of a text.
RECURSIVE lines_of(_)
lines_of(text) ==
    LET nl == {i \in 1..Len(text) : text[i] = 10}
    IN  IF nl = {} THEN <<text>>
        ELSE <<SubSeq(text, 1, SetMin(nl) - 1)>>
                 \o lines_of(SubSeq(text, SetMin(nl) + 1, Len(text)))

\* str(n) for a non-negative int: its decimal digits.
RECURSIVE str_int(_)
str_int(n) ==
    IF n < 10 THEN <<48 + n>> ELSE str_int(n \div 10) \o <<48 + (n % 10)>>

\* ---- small talk, Arabic (src/bot.py 141-170)
arabic_greetings ==
    << Ar("mrHbA"), Ar("AhlA"), Ar(">hlA"), Ar("AlslAm Elykm"), Ar("hlA"), Ar("mrHbA jAbr"),
       Ar("AhlA jAbr") >>
reply_greeting_ar ==
    Ar(">hlAF") \o S("! ") \o Ar(">nA jAbr, AlmsAEd AlAftrADy mn mgslp fry$ tAt$") \o S(". ")
    \o Ar("kyf >qdr >sAEdk Alywm?")
thanks_ar ==
    << Ar("$krA"), Ar("$krFA"), Ar("m$kwr"), Ar("yETyk AlEAfyp") >>
reply_thanks_ar ==
    Ar("AlEfw") \o S(" ") \o <<127800>> \o Ar(", h*A wAjby") \o S(". ")
    \o Ar("<*A tHtAj >y msAEdp fy Algsyl >w Al>sEAr >w AlAstlAm wAltwSy") \o Ar("l >nA HADr")
    \o S(".")
compliments_ar ==
    << Ar("Ant rA}E"), Ar(">nt rA}E"), Ar("Ant lTyf"), Ar(">nt lTyf"), Ar("kwys"), Ar("Hlw"),
       Ar("jyd") >>
reply_compliment_ar ==
    Ar("tslm") \o S(" ") \o <<129505>> \o Ar(", $krAF lk ElY AlklAm AlTyb") \o S(". ")
    \o Ar("kyf >qdr >sAEdk fy Algsyl >w Al>sEAr?")
identity_ar ==
    << Ar("Asmk"), Ar("myn Ant"), Ar("mn Ant"), Ar("hl Ant rwbwt"), Ar("hl Ant AnsAn") >>
reply_identity_ar ==
    Ar(">nA jAbr, AlmsAEd AlAftrADy lmgslp fry$ tAt$ llgsyl wAltnZyf") \o Ar(" AljAf")
    \o S(". ") \o Ar(">sAEdk fy Al>sEAr, wAlxdmAt, wAlErwD, wHjz AstlAm Algsyl mn") \o S(" ")
    \o Ar("Albyt") \o S(".")
capability_ar ==
    << Ar("mA*A tstTyE"), Ar("$w tswy"), Ar("kyf tsAEdny"), Ar("Ay$ tswy"), Ar("mA*A tfEl") >>
reply_capability_ar ==
    Ar(">qdr >sAEdk fy mErfp >sEAr Algsyl wAltnZyf AljAf, wxdmAt mvl")
    \o Ar(" Albxwr, gsyl bAlSndl, wrwA}H Alwrd wAlyAsmyn, w>$rH lk kyf") \o S(" ")
    \o Ar("tHjz Tlb sryE mn xlAl mwqE") \o S(" ") \o S("fabrico.ae. ")
    \o Ar("tqdr ts>l En AlAstlAm wAltwSyl >w >y qTEp mlAbs tHtAj sErhA") \o S(".")

\* ---- small talk, English (src/bot.py 172-214)
greeting_patterns ==
    << S("hi"), S("hello"), S("hey"), S("salam"), S("ahlan"), S("hi jabir"), S("hello jabir"),
       S("hey jabir") >>
reply_greeting_en ==
    S("Ahlan! I'm Jabir from Fresh Touch Laundry. How can I assist ") \o S("you today?")
thanks_en ==
    << S("thanks"), S("thank you"), S("thx"), S("tnx") >>
reply_thanks_en ==
    S("You") \o <<8217>> \o S("re most welcome! ") \o <<128522, 10>>
    \o S("If you need help with laundry, prices, pickup or offers, jus") \o S("t ask me.")
compliments_en ==
    << S("you are nice"), S("you're nice"), S("you are cool"), S("you're cool"),
       S("you are great"), S("you're great"), S("you are good"), S("you're good"),
       S("love you"), S("i like you") >>
reply_compliment_en ==
    S("Thank you, that") \o <<8217>> \o S("s very kind of you ") \o <<129505, 10>> \o S("I")
    \o <<8217>> \o S("m here anytime you need help with laundry, prices, pickup or")
    \o S(" offers.")
identity_en ==
    << S("your name"), S("who are you"), S("what are you"), S("are you a bot"),
       S("are you human") >>
reply_identity_en ==
    S("I") \o <<8217>> \o S("m Jabir, the virtual assistant for Fresh Touch Laundry & Dry")
    \o S(" Cleaning. I") \o <<8217>>
    \o S("m here to help with prices, services, offers and booking you") \o S("r laundry pickup.")
capability_en ==
    << S("what can you do"), S("how can you help"), S("what do you do") >>
reply_capability_en ==
    S("I can help you with laundry prices, services, special washes")
    \o S(" like bakhoor steam, sandalwood, rose and jasmine, and expla")
    \o S("in how to place a quick order on fabrico.ae. You can ask me ")
    \o S("about pickup, offers, or any item price.")

\* ---- faq_answer: item names and complaints (src/bot.py 226-262)
common_items ==
    << S("abaya"), S("shela"), S("sheila"), S("jalabiya"), S("kandoora"), S("kandura"),
       S("thobe"), S("dress"), S("blanket"), S("duvet"), S("curtain"), S("curtains"),
       S("carpet"), S("t-shirt"), S("shirt"), S("trouser"), S("pants"), S("jeans"), S("saree"),
       S("night gown"), S("children"), S("kids clothes"), S("shoes"), S("shoe"), S("bedsheet"),
       S("bed sheet"), S("bedcover"), S("bed cover"), S("bed-sheet"), S("apron"), S("cap"),
       S("lungi"), S("vizar"), S("wizaar"), S("wizar") >>
complaint_en ==
    << S("not answering"), S("not ansering"), S("not answer"), S("answer my question"),
       S("answer my questions"), S("very slow"), S("too slow"), S("so slow") >>
complaint_ar ==
    << Ar("mA tjAwb"), Ar("mA trd"), Ar("mw rADy trd"), Ar("bTy'"), Ar("bTy}"), Ar("bT}") >>
reply_complaint_ar ==
    Ar("|sf <*A Hs~yt >ny mA jAwbtk SH >w >n Alrd kAn bTy'") \o S(".") \o <<10>>
    \o Ar("HAwl tktb s&Alk mrp vAnyp En Algsyl >w Al>sEAr >w AltwSyl, w")
    \o Ar(">nA >jAwbk b>wDH $kl mmkn") \o S(". ") \o <<127800>>
reply_complaint_en ==
    S("Sorry if it felt like I wasn") \o <<8217>>
    \o S("t answering you properly or was a bit slow.") \o <<10>>
    \o S("Please ask your question again about laundry, prices, pickup") \o S(" or offers, and I")
    \o <<8217>> \o S("ll try to answer more clearly. ") \o <<128522>>

\* ---- faq_answer: Arabic branches (src/bot.py 265-389)
services_ar ==
    << Ar("mA hy xdmAtkm"), Ar("Ay$ AlxdmAt"), Ar("$w AlxdmAt"), Ar("mA AlxdmAt"),
       Ar("w$ tqdmwn") >>
reply_services_ar ==
    Ar("nqdm xdmAt gsyl, tnZyf jAf, ky, gsyl EbAyAt, knAdyr, fsAtyn,")
    \o Ar(" bdlAt, mlAbs >TfAl, stA}r, sjAd, lHf, bTAnyAt, mnA$f, wmfAr") \o Ar("$ sryr w>kvr")
    \o S(".") \o <<10>> \o Ar("tqdr tHjz Tlb sryE mn xlAl mwqE") \o S(" ") \o S("fabrico.ae")
    \o Ar(", wmndwbnA ytwASl mEk qbl wqt AlAstlAm llt>kyd") \o S(".")
different_ar ==
    << Ar("mA Al*y ymyzkm"), Ar("ly$ Antm mxtlfyn"), Ar("ly$ AxtArkm"), Ar("mA Almmyz"),
       Ar("Ay$ Almmyz") >>
reply_different_ar ==
    Ar("mgslp fry$ tAt$ thtm bjwdp Algsyl wrAHp AlEmyl") \o S(":") \o <<10>> \o S("- ")
    \o Ar("bxwr Erby bAlbxAr lqTE mxtArp") \o <<10>> \o S("- ") \o Ar("gsyl bAlSndl") \o S(" ")
    \o S("(") \o Ar("sndl wwd") \o S(") ") \o Ar("mE rA}Hp mmyzp") \o <<10>> \o S("- ")
    \o Ar("gsyl brwA}H Alwrd wAlyAsmyn lAntEA$ nAEm") \o <<10>> \o S("- ")
    \o Ar("EnAyp xASp bAl>qm$p mE mnZfAt lTyfp") \o <<10>> \o S("- ")
    \o Ar("AstlAm wtwSyl mjAny fy AlmnATq Alm$mwlp") \o <<10>> \o S("- ") \o Ar("xSm") \o S(" ")
    \o S("20% ") \o Ar("ElY >wl") \o S(" ") \o S("3 ") \o Ar("TlbAt fy Al$hr") \o S(" ") \o S("(")
    \o Ar("Hsb twfr AlErD") \o S(")") \o <<10>> \o Ar("wtqdr tHjz bshwlp Tlbk mn xlAl mwqE")
    \o S(" ") \o S("fabrico.ae.")
fragrance_ar ==
    << Ar("bxwr"), Ar("bxwr Erby"), Ar("Sndl"), Ar("wrd"), Ar("yAsmyn"), Ar("rA}Hp"), Ar("ETr"),
       Ar("ryHp") >>
reply_fragrance_ar ==
    Ar("nqdm xyArAt rwA}H xASp lqTE mxtArp") \o S(":") \o <<10>> \o S("- ")
    \o Ar("bxwr Erby bAlbxAr") \o <<10>> \o S("- ") \o Ar("gsyl bAlSndl") \o S(" ") \o S("(")
    \o Ar("sndl wwd") \o S(")") \o <<10>> \o S("- ") \o Ar("gsyl brwA}H Alwrd wAlyAsmyn") \o <<10>>
    \o Ar("tqdr tTlb nwE AlrA}Hp AlmfDl End <n$A' AlTlb HtY nhtm bmlAbs")
    \o Ar("k bAlTryqp Ally tHbhA") \o S(".")
offers_ar ==
    << Ar("ErD"), Ar("AlErD"), Ar("AlErwD"), Ar("xSm"), Ar("txfyD"), S("off"), Ar("Awf") >>
reply_offers_ar ==
    Ar("HAlyAF nqdm xSm") \o S(" ") \o S("20% ") \o Ar("ElY >wl") \o S(" ") \o S("3 ")
    \o Ar("TlbAt fy Al$hr") \o S(" ") \o S("(") \o Ar("Hsb twfr AlErD") \o S(").") \o <<10>>
    \o Ar("AlxSm yTbq ElY qymp Algsyl End AldfE, swA' En Tryq AlbTAqp >") \o Ar("w") \o S(" ")
    \o S("Apple Pay ") \o Ar(">w") \o S(" ") \o S("Google Pay.") \o <<10>>
    \o Ar("lmErfp >y ErwD <DAfyp mfE~lp Al|n, yufDl t$yk mwqE") \o S(" ") \o S("fabrico.ae ")
    \o Ar(">w trAslnA ElY AlwAtsAb") \o S(".")
contact_ar ==
    << Ar("wAtsAb"), Ar("AlwAtsAb"), Ar("rqmk"), Ar("rqmkm"), Ar("rqm AlhAtf"),
       Ar("rqm AljwAl"), Ar("AtSAl"), Ar("AtSl") >>
reply_contact_ar ==
    Ar("tqdr ttwASl mEnA ElY AlwAtsAb >w AlAtSAl ElY h*A Alrqm") \o S(":") \o <<10, 128222>>
    \o S(" 056 211 1334")
coverage_ar ==
    << Ar("mnTqty"), Ar("mnTqh"), Ar("fy mnTqty"), Ar("fy mnTqtk"), Ar("txdmwn mnTqty"),
       Ar("txdmwn fy mnTqty") >>
reply_coverage_ar ==
    Ar("nxdm Edp mnATq dAxl dwlp Al<mArAt mE AstlAm wtwSyl mjAny fy") \o S(" ")
    \o Ar("AlmnATq Alm$mwlp") \o S(".") \o <<10>>
    \o Ar("E$An >qdr >>kd lk bAlDbT, yfD~l trsl mwqEk") \o S(" ") \o S("(") \o Ar("lwky$n")
    \o S(") ") \o Ar(">w mnTqtk ElY AlwAtsAb ElY rqm") \o S(" ") \o S("056 211 1334")
    \o Ar(", >w t$yk mwqE") \o S(" ") \o S("fabrico.ae ") \o Ar("lmzyd mn AltfASyl") \o S(".")
price_words_ar ==
    << Ar("sEr"), Ar("AlAsEAr"), Ar("Al>sEAr"), Ar("km"), Ar("bkm"), Ar("tklfp"), Ar("km sEr"),
       Ar("qA}mp AlAsEAr") >>
reply_no_prices_ar ==
    Ar("mA qdrt >jyb Al>sEAr mbA$rp Al|n") \o S(".") \o <<10>>
    \o Ar("yufDl t$yk SfHp Al>sEAr fy AlmwqE l>Hdv qA}mp") \o S(".") \o <<10>>
    \o Ar("EAdpF >sEArnA mnAsbp jdAF, wElY >wl") \o S(" ") \o S("3 ")
    \o Ar("TlbAt fy Al$hr tHSl ElY xSm") \o S(" ") \o S("20% (") \o Ar("Hsb twfr AlErD") \o S(").")
booking_ar ==
    << Ar("AstlAm"), Ar("twSyl"), Ar("tstlmwn"), Ar("tstlmw"), Ar("tjybwn"), Ar("tHjz"),
       Ar("Hjz"), Ar("Tlb") >>
reply_booking_ar ==
    Ar("nEm, EndnA AstlAm wtwSyl mjAny fy AlmnATq Alm$mwlp") \o S(".") \o <<10>>
    \o Ar("tqdr tswy Tlb gsyl sryE mn xlAl mwqE") \o S(" ") \o S("fabrico.ae ") \o Ar("bAlDgT ElY")
    \o S(" ") \o S("Quick Order ") \o Ar(">w") \o S(" ") \o S("Schedule Now.") \o <<10>>
    \o Ar("bEd <n$A' AlTlb, mndwb fry$ tAt$ ytwASl mEk qbl wqt AlAstlAm") \o Ar(" llt>kyd")
    \o S(".") \o <<10>> \o Ar("wEndk xSm") \o S(" ") \o S("20% ") \o Ar("ElY >wl") \o S(" ")
    \o S("3 ") \o Ar("TlbAt fy Al$hr") \o S(" ") \o S("(") \o Ar("Hsb twfr AlErD") \o S(").")
hours_ar ==
    << Ar("Alwqt"), Ar("AldwAm"), Ar("mtY tftHwn"), Ar("mtY tftH"), Ar("mtY tskrwn"),
       Ar("mwAEyd AlEml") >>
reply_hours_ar ==
    Ar("nEml fy >wqAt mryHp mn AlSbAH <lY AlmsA'") \o S(".") \o <<10>>
    \o Ar("llt>kd mn mwAEyd Alywm bAltHdyd, yufDl t$yk mwqE") \o S(" ") \o S("fabrico.ae ")
    \o Ar(">w AltwASl mEnA ElY AlwAtsAb") \o S(".")
location_ar ==
    << Ar("mwqEkm"), Ar("wynkm"), Ar("wyn mwqEkm"), Ar("frE"), Ar("Almgslp fyn") >>
reply_location_ar ==
    Ar("nHn fy dwlp Al<mArAt wnwfr xdmp AlAstlAm wAltwSyl fy mnATq m") \o Ar("Hddp") \o S(".")
    \o <<10>> \o Ar("tqdr t$yk mwqE") \o S(" ") \o S("fabrico.ae ")
    \o Ar(">w trAslnA ElY AlwAtsAb llt>kd <*A ngTy mnTqtk") \o S(".")

\* ---- faq_answer: English branches (src/bot.py 393-538)
services_en ==
    << S("services do you offer"), S("what services"), S("what do you offer") >>
reply_services_en ==
    S("We handle everyday laundry, dry cleaning, ironing, abayas, k")
    \o S("anduras, dresses, suits, children") \o <<8217>>
    \o S("s clothes, curtains, carpets, duvets, blankets, towels, beds") \o S("heets and more.")
    \o <<10>> \o S("You can place a Quick Order on fabrico.ae and our rider will")
    \o S(" contact you before pickup.")
different_en ==
    << S("what makes you different"), S("why are you different"), S("why choose you"),
       S("what is special"), S("what's special"), S("why fresh touch") >>
reply_different_en ==
    S("Fresh Touch Laundry focuses on quality and comfort:") \o <<10>>
    \o S("- Special Arabic bakhoor steam finishing for selected garmen") \o S("ts") \o <<10>>
    \o S("- Premium sandalwood wash, and rose or jasmine wash for gent") \o S("le fragrance")
    \o <<10>> \o S("- Careful fabric handling with gentle detergents") \o <<10>>
    \o S("- Free pickup and drop in covered areas") \o <<10>>
    \o S("- 20% off on the first 3 orders in a month (subject to offer") \o S(")") \o <<10>>
    \o S("Plus, you can place quick orders online at fabrico.ae.")
offers_en ==
    << S("offer"), S("offers"), S("discount"), S("promo"), S("promotion"), S("deal") >>
reply_offers_en ==
    S("We currently offer 20% off on the first 3 orders in a month ")
    \o S("(subject to current offer).") \o <<10>>
    \o S("The discount applies on your laundry bill when you pay ") \o <<8211>>
    \o S(" by card, Apple Pay or Google Pay.") \o <<10>>
    \o S("For any extra or seasonal promotions, please check fabrico.a")
    \o S("e or contact us on WhatsApp.")
contact_en ==
    << S("whatsapp"), S("what'sapp"), S("whats app"), S("whatsap"), S("contact number"),
       S("phone number"), S("mobile number"), S("call you"), S("call u"), S("your number") >>
reply_contact_en ==
    S("You can WhatsApp or call us on:") \o <<10, 128222>> \o S(" 056 211 1334")
coverage_en ==
    << S("service in my area"), S("serve my area"), S("do you service in my area"),
       S("in my area"), S("my area"), S("my location"), S("from my location") >>
reply_coverage_en ==
    S("We provide pickup & delivery in selected areas within the UA") \o S("E.") \o <<10>>
    \o S("To confirm for your exact location, please share your area o")
    \o S("r live location on WhatsApp to 056 211 1334, or check the de")
    \o S("tails on fabrico.ae.")
fragrance_en ==
    << S("bakhoor"), S("bukhoor"), S("sandalwood"), S("sandlwood"), S("rose wash"),
       S("jasmine wash"), S("fragrance"), S("smell"), S("perfume wash") >>
reply_fragrance_en ==
    S("We provide special fragrance options on selected items:") \o <<10>>
    \o S("- Arabic bakhoor steam finishing") \o <<10>> \o S("- Premium sandalwood wash") \o <<10>>
    \o S("- Rose and jasmine wash for a soft, fresh scent") \o <<10>>
    \o S("You can ask for these preferences when placing your order so")
    \o S(" we treat your garments accordingly.")
price_words ==
    << S("price"), S("prices"), S("cost"), S("how much"), S("rate"), S("list") >>
reply_no_prices_en ==
    S("I couldn't fetch the live prices right now.") \o <<10>>
    \o S("Please check the pricing page on the website for the latest ")
    \o S("detailed price list.") \o <<10>>
    \o S("We usually offer very affordable rates, and for the first 3 ")
    \o S("orders in a month we give 20% off (subject to current offer)") \o S(".")
booking_en ==
    << S("pickup"), S("pick up"), S("delivery"), S("drop"), S("collect"), S("book"), S("order") >>
reply_booking_en ==
    S("Yes, we provide free pickup and drop in our covered areas.") \o <<10>>
    \o S("You can create a quick laundry order by visiting fabrico.ae ")
    \o S("and tapping on Quick Order / Schedule Now.") \o <<10>>
    \o S("After you place the order, our rider will contact you before")
    \o S(" your pickup time to reconfirm the details.") \o <<10>>
    \o S("Also, for the first 3 orders in a month, you get 20% off (su")
    \o S("bject to current offer).")
hours_en ==
    << S("timing"), S("time"), S("open"), S("close"), S("working hours") >>
reply_hours_en ==
    S("We operate with convenient timings from morning till evening") \o S(".") \o <<10>>
    \o S("For today's exact opening hours, please check fabrico.ae or ")
    \o S("contact us on WhatsApp.")
location_en ==
    << S("where are you"), S("location"), S("branch"), S("shop") >>
reply_location_en ==
    S("We are based in the UAE and provide pickup & delivery servic")
    \o S("e in our covered areas.") \o <<10>>
    \o S("Please check fabrico.ae or contact us on WhatsApp to confirm")
    \o S(" coverage for your area.")

\* ---- generate_reply: prompt parts and fixed apologies (src/bot.py 15-49, 567-650)
BUSINESS_CONTEXT ==
    <<10>> \o S("You are Jabir, the friendly AI assistant for Fresh Touch Lau")
    \o S("ndry & Dry Cleaning (UAE).") \o <<10, 10>> \o S("Identity:") \o <<10>>
    \o S("- Your name is Jabir.") \o <<10>>
    \o S("- You are a helpful virtual assistant (not a human), but you")
    \o S(" speak in a friendly, human-like way.") \o <<10>>
    \o S("- You always stay polite and respectful.") \o <<10, 10>> \o S("Business & services:")
    \o <<10>> \o S("- You help users with laundry, dry cleaning, ironing, curtai")
    \o S("ns, carpets, abayas, kanduras, dresses,") \o <<10>>
    \o S("  blankets, duvets, shoe cleaning, uniforms, and more.") \o <<10>>
    \o S("- You explain that customers can easily create an order by v")
    \o S("isiting fabrico.ae and using the") \o <<10>> \o S("  Quick Order / Schedule Now option.")
    \o <<10>> \o S("- You mention that after placing an order, our rider will co")
    \o S("ntact the customer before the pickup time") \o <<10>> \o S("  to reconfirm the details.")
    \o <<10>> \o S("- You clearly mention that for the first 3 orders in a month")
    \o S(", we offer 20% off") \o <<10>> \o S("  (subject to current offer validity).")
    \o <<10, 10>> \o S("What makes Fresh Touch different:") \o <<10>>
    \o S("- We offer special Arabic bakhoor steam finishing for select") \o S("ed garments.")
    \o <<10>> \o S("- We provide premium sandalwood wash options.") \o <<10>>
    \o S("- We offer rose and jasmine wash for a gentle, fresh fragran") \o S("ce.") \o <<10>>
    \o S("- We focus on high quality, careful fabric handling, and ver")
    \o S("y affordable pricing.") \o <<10>>
    \o S("- We provide free pickup and drop in our covered areas.") \o <<10>>
    \o S("- We use gentle detergents and premium cleaning techniques.") \o <<10, 10>>
    \o S("Answer style:") \o <<10>>
    \o S("- You answer clearly and briefly, in a friendly and professi") \o S("onal tone.")
    \o <<10>> \o S("- You avoid very long paragraphs and keep answers easy to re") \o S("ad.")
    \o <<10>> \o S("- When asked about prices, you use the latest prices from th")
    \o S("e connected price API when available.") \o <<10>>
    \o S("- When users ask about booking, you remind them they can pla")
    \o S("ce a Quick Order on fabrico.ae and that") \o <<10>>
    \o S("  our rider will contact them before pickup.") \o <<10>>
    \o S("- If something is not clear or you are not fully sure, you s")
    \o S("ay you are not sure and suggest the user") \o <<10>>
    \o S("  check fabrico.ae or contact support/WhatsApp for confirmat") \o S("ion.") \o <<10>>
lang_instruction_ar ==
    S("IMPORTANT: The user is writing in Arabic. Answer ONLY in Ara")
    \o S("bic, with a friendly and clear tone. Keep the answer short a") \o S("nd easy to read.")
lang_instruction_en ==
    S("IMPORTANT: The user is writing in English. Answer ONLY in En")
    \o S("glish, with a friendly and clear tone. Keep the answer short") \o S(" and easy to read.")
fallback_reply_ar ==
    Ar("ymkn mA fhmt s&Alk bAlDbT, |sf ElY *lk") \o S(".") \o <<10>>
    \o Ar(">nA mtxSS fy msAEdpk fy >mwr Algsyl, Al>sEAr, AlErwD wxdmp A") \o Ar("lAstlAm wAltwSyl")
    \o S(".") \o <<10>> \o Ar("HAwl tktb s&Alk mrp vAnyp En $y' yxS Algsyl >w Al>sEAr w>nA")
    \o S(" ") \o Ar(">jAwbk b>wDH $kl mmkn") \o S(". ") \o <<127800>>
fallback_reply_en ==
    S("I might not have understood your question correctly, sorry a") \o S("bout that.")
    \o <<10>> \o S("I") \o <<8217>> \o S("m mainly here to help with laundry questions ")
    \o <<8211>> \o S(" like prices, pickup, offers, or how to place an order on fa")
    \o S("brico.ae.") \o <<10>>
    \o S("Please ask again about anything related to your laundry and ") \o S("I") \o <<8217>>
    \o S("ll do my best to answer clearly. ") \o <<128522>>

\* ------------------------------------------------------------------------
\* detect_language (src/bot.py 54-62)
\* ------------------------------------------------------------------------

\* any('\u0600' <= ch <= '\u06FF' for ch in text): code points 1536..1791
detect_language(text) ==
    IF \E i \in 1..Len(text) : 1536 <= text[i] /\ text[i] <= 1791 THEN "ar" ELSE "en"

\* ------------------------------------------------------------------------
\* The pricing endpoint's answer and get_prices_from_site (src/bot.py 67-129)
\* ------------------------------------------------------------------------

\* A parsed JSON value, as resp.json() returns it: None, bool, int, str, list,
\* or dict (a sequence of <<key, value>> pairs in insertion order, the keys
\* distinct).
JNull == [t |-> "null"]
JBool(b) == [t |-> "bool", b |-> b]
JNum(n) == [t |-> "num", n |-> n]
JStr(s) == [t |-> "str", s |-> s]
JList(l) == [t |-> "list", l |-> l]
JObj(o) == [t |-> "obj", o |-> o]

\* What requests.get(PRICING_API_URL, timeout=10) meets: the call raises (no
\* network, timeout), or a response arrives with a status and a body that is
\* either not JSON or parses to a JSON value.
HttpRaises == [kind |-> "raises"]
HttpBadBody(status) == [kind |-> "response", status |-> status, valid |-> FALSE, json |-> JNull]
HttpJson(status, v) == [kind |-> "response", status |-> status, valid |-> TRUE, json |-> v]

\* resp.raise_for_status(): requests raises HTTPError for 4xx and 5xx only.
raise_for_status(resp) == 400 <= resp.status /\ resp.status < 600

\* dict.get(key, default)
dict_get(obj, key, default) ==
    IF \E k \in 1..Len(obj.o) : obj.o[k][1] = key
    THEN obj.o[CHOOSE k \in 1..Len(obj.o) : obj.o[k][1] = key][2]
    ELSE default

\* repr(v) and str(v) of a parsed JSON value (the strings of the modelled
\* bodies hold no quote, backslash or control character).
RECURSIVE py_repr(_)
py_repr(v) ==
    CASE v.t = "null" -> S("None")
      [] v.t = "bool" -> IF v.b THEN S("True") ELSE S("False")
      [] v.t = "num"  -> str_int(v.n)
      [] v.t = "str"  -> S("'") \o v.s \o S("'")
      [] v.t = "list" ->
            S("[") \o join(S(", "), [i \in 1..Len(v.l) |-> py_repr(v.l[i])]) \o S("]")
      [] v.t = "obj"  ->
            S("{") \o join(S(", "), [i \in 1..Len(v.o) |->
                        S("'") \o v.o[i][1] \o S("': ") \o py_repr(v.o[i][2])])
                   \o S("}")

py_str(v) == IF v.t = "str" THEN v.s ELSE py_repr(v)

\* prices[key] = val on a dict kept as a sequence of <<key, val>> pairs: an
\* existing key keeps its place and takes the new value.
dict_set(d, key, val) ==
    IF \E k \in 1..Len(d) : d[k][1] = key
    THEN [k \in 1..Len(d) |-> IF d[k][1] = key THEN <<key, val>> ELSE d[k]]
    ELSE Append(d, <<key, val>>)

\* src/bot.py 106-112: the "vname: vprice" strings of the dict entries of
\* itemtype; an itemtype that is no list, and entries that are no dict, give
\* nothing.
RECURSIVE variants_of(_)
variants_of(itemtype_list) ==
    IF itemtype_list.t # "list" \/ itemtype_list.l = <<>> THEN <<>>
    ELSE LET variant == Head(itemtype_list.l)
             here == IF variant.t = "obj"
                     THEN [i \in 1..Len(variant.o) |->
                              variant.o[i][1] \o S(": ") \o py_str(variant.o[i][2])]
                     ELSE <<>>
         IN  here \o variants_of(JList(Tail(itemtype_list.l)))

\* src/bot.py 98-125, one package that is a dict: <<key, description>>, or
\* <<>> when the loop continues without an entry.
pkg_entry(pkg) ==
    LET name == strip(py_str(dict_get(pkg, S("name"), JStr(<<>>))))
        key == lower(name)
        base_price == dict_get(pkg, S("price"), JNull)
        variants == variants_of(dict_get(pkg, S("itemtype"), JList(<<>>)))
        parts == (IF base_price.t # "null"
                  THEN <<S("from ") \o py_str(base_price) \o S(" AED")>> ELSE <<>>)
                 \o (IF variants # <<>> THEN <<join(S(", "), variants)>> ELSE <<>>)
    IN  IF name = <<>> \/ parts = <<>> THEN <<>>
        ELSE <<key, join(S(" | "), parts)>>

\* src/bot.py 95-125, the loop: [exc, prices].  pkg.get on a package that is
\* no dict raises AttributeError out of the function.
RECURSIVE build_prices(_, _)
build_prices(packages, prices) ==
    IF packages = <<>> THEN [exc |-> "", prices |-> prices]
    ELSE LET pkg == Head(packages)
         IN  IF pkg.t # "obj" THEN [exc |-> "AttributeError", prices |-> prices]
             ELSE LET e == pkg_entry(pkg)
                  IN  build_prices(Tail(packages),
                          IF e = <<>> THEN prices ELSE dict_set(prices, e[1], e[2]))

\* A slip: "return prices" for "return prices or None".
prices_or_empty(built) ==
    IF built.exc # "" THEN [exc |-> built.exc, ret |-> None]
    ELSE [exc |-> "", ret |-> Some(built.prices)]

\* src/bot.py 127-129: return prices or None, unless the loop raised.
prices_or_none(built) ==
    IF built.exc # "" THEN [exc |-> built.exc, ret |-> None]
    ELSE IF built.prices = <<>> THEN [exc |-> "", ret |-> None]
    ELSE [exc |-> "", ret |-> Some(built.prices)]

\* get_prices_from_site(): [exc, ret].  exc names the exception that leaves
\* the function ("" when it returns); ret is None or Some(prices), prices the
\* dict as a sequence of <<key, description>> pairs.
get_prices_from_site(resp) ==
    IF resp.kind = "raises" \/ raise_for_status(resp) THEN [exc |-> "", ret |-> None]
    ELSE IF ~resp.valid THEN [exc |-> "", ret |-> None]
    ELSE LET data == resp.json
         IN  IF data.t # "obj" THEN [exc |-> "AttributeError", ret |-> None]
             ELSE LET packages == dict_get(data, S("packages"), JList(<<>>))
                  IN  IF packages.t # "list" THEN [exc |-> "", ret |-> None]
                      ELSE prices_or_none(build_prices(packages.l, <<>>))

\* ------------------------------------------------------------------------
\* handle_small_talk_and_meta (src/bot.py 134-216)
\* ------------------------------------------------------------------------

\* src/bot.py 141-170: the Arabic block.  It returns on a match and otherwise
\* falls out of the "if" into the English checks below.
small_talk_ar(text) ==
    IF member(text, arabic_greetings) THEN Some(reply_greeting_ar)
    ELSE IF any_in(thanks_ar, text) THEN Some(reply_thanks_ar)
    ELSE IF any_in(compliments_ar, text) THEN Some(reply_compliment_ar)
    ELSE IF any_in(identity_ar, text) THEN Some(reply_identity_ar)
    ELSE IF any_in(capability_ar, text) THEN Some(reply_capability_ar)
    ELSE None

\* src/bot.py 172-216: the English checks.
small_talk_en(text) ==
    IF member(text, greeting_patterns) THEN Some(reply_greeting_en)
    ELSE IF any_in(thanks_en, text) THEN Some(reply_thanks_en)
    ELSE IF any_in(compliments_en, text) THEN Some(reply_compliment_en)
    ELSE IF any_in(identity_en, text) THEN Some(reply_identity_en)
    ELSE IF any_in(capability_en, text) THEN Some(reply_capability_en)
    ELSE None

\* None, or Some(reply).
handle_small_talk_and_meta(user_text, lang) ==
    LET text == strip(lower(user_text))
        ar == IF lang = "ar" THEN small_talk_ar(text) ELSE None
    IN  IF ar # None THEN ar ELSE small_talk_en(text)

\* ------------------------------------------------------------------------
\* faq_answer (src/bot.py 221-538)
\* ------------------------------------------------------------------------

\* A slip: len(w) > 3 for len(w) > 2.
user_words_over_three(text) == SelectSeq(split(text), LAMBDA w : Len(w) > 3)

\* src/bot.py 469 and 326: [w for w in text.split() if len(w) > 2]
user_words_of(text) == SelectSeq(split(text), LAMBDA w : Len(w) > 2)

\* src/bot.py 470-476 and 327-333: the (name_key, val) pairs of prices, in
\* the dict's order, whose key holds some user word; the break adds a key once.
matched_by(user_words, prices) ==
    SelectSeq(prices, LAMBDA item :
        \E k \in 1..Len(user_words) : contains(user_words[k], item[1]))

matched_items_of(text, prices) == matched_by(user_words_of(text), prices)

\* A slip: the key is shown as stored, without capitalize().
item_line_as_stored(item) == S("- ") \o item[1] \o S(": ") \o item[2]

\* f"- {name_key.capitalize()}: {val}"
item_line(item) == S("- ") \o capitalize(item[1]) \o S(": ") \o item[2]

\* A slip: one item more than the cap (matched_items[:13], count > 8).
first_n_and_one(seq, n) == SubSeq(seq, 1, IF Len(seq) < n + 1 THEN Len(seq) ELSE n + 1)

\* matched_items[:12], and the first 8 items of prices (count >= 8: break).
first_n(seq, n) == SubSeq(seq, 1, IF Len(seq) < n THEN Len(seq) ELSE n)

\* src/bot.py 478-503: the lines of the English pricing reply, matched_items
\* being the list built at 470-476.
lines_en(matched_items, original_text, prices) ==
    LET shown == IF matched_items # <<>>
                 THEN <<S("Here are the prices I found:") \o NL>>
                      \o [i \in 1..Len(first_n(matched_items, 12)) |->
                             item_line(matched_items[i])]
                 ELSE <<S("I couldn't find an exact price match for '")
                        \o strip(original_text) \o S("'.") \o NL
                        \o S("Here are some example laundry & dry cleaning prices:") \o NL>>
                      \o [i \in 1..Len(first_n(prices, 8)) |-> item_line(prices[i])]
    IN  shown \o
        << NL \o S("For the full updated price list, please check the pricing page ")
              \o S("on the website."),
           S("And remember: on the first 3 orders in a month, we offer 20% off ")
              \o S("(subject to current offer).") >>

\* src/bot.py 335-355: the lines of the Arabic pricing reply, matched_items
\* being the list built at 327-333.
lines_ar(matched_items, original_text, prices) ==
    LET shown == IF matched_items # <<>>
                 THEN <<Ar("h*h bED Al>sEAr Alty wjdthA") \o S(":") \o NL>>
                      \o [i \in 1..Len(first_n(matched_items, 12)) |->
                             item_line(matched_items[i])]
                 ELSE <<Ar("mA qdrt >jd sEr wADH llqTEp") \o S(": ")
                        \o strip(original_text) \o S(".") \o NL,
                        Ar("lkn h*h >mvlp ElY bED Al>sEAr fy AlqA}mp") \o S(":") \o NL>>
                      \o [i \in 1..Len(first_n(prices, 8)) |-> item_line(prices[i])]
    IN  shown \o
        << NL \o Ar("llqA}mp AlkAmlp wAlmHd~vp, yfDl zyArp SfHp Al>sEAr fy AlmwqE")
              \o S("."),
           Ar("wt*k~r") \o S(": ") \o Ar("ElY >wl") \o S(" 3 ") \o Ar("TlbAt fy Al$hr ywjd xSm")
              \o S(" 20% (") \o Ar("Hsb twfr AlErD") \o S(").") >>

\* src/bot.py 467-503 and 324-355: lines, in the branch's language.
price_lines(text, original_text, lang, prices) ==
    IF lang = "ar" THEN lines_ar(matched_items_of(text, prices), original_text, prices)
    ELSE lines_en(matched_items_of(text, prices), original_text, prices)

\* What faq_answer did: the branch whose test fired ("none" when it reaches
\* "return None"), the exception that left it ("" when it returned), the
\* returned value (None or Some(reply)), and how often it called
\* get_prices_from_site.
\* A slip: the catalog is fetched before the branches are tried, so every
\* branch has made a fetch.
FaqResult_prefetched(branch, ret) ==
    [branch |-> branch, exc |-> "", ret |-> ret, fetches |-> 1]

FaqResult(branch, ret) == [branch |-> branch, exc |-> "", ret |-> ret, fetches |-> 0]

\* A slip: the Arabic branch answers a failed fetch with the English text.
pricing_reply_english(text, original_text, lang, got) ==
    IF got.exc # ""
    THEN [branch |-> "pricing", exc |-> got.exc, ret |-> None, fetches |-> 1]
    ELSE [branch |-> "pricing", exc |-> "", fetches |-> 1,
          ret |-> IF got.ret # None
                  THEN Some(join(NL, price_lines(text, original_text, lang, got.ret[1])))
                  ELSE Some(reply_no_prices_en)]

\* src/bot.py 466-511 and 323-363: a pricing branch after its call of
\* get_prices_from_site ended as got.
pricing_reply(text, original_text, lang, got) ==
    LET prices == IF got.ret = None THEN <<>> ELSE got.ret[1]
    IN  IF got.exc # ""
        THEN [branch |-> "pricing", exc |-> got.exc, ret |-> None, fetches |-> 1]
        ELSE [branch |-> "pricing", exc |-> "", fetches |-> 1,
              ret |-> IF prices # <<>>
                      THEN Some(join(NL, price_lines(text, original_text, lang, prices)))
                      ELSE IF lang = "ar" THEN Some(reply_no_prices_ar)
                      ELSE Some(reply_no_prices_en)]

\* src/bot.py 465-511 and 322-363: the body of a pricing branch.
pricing_branch(text, original_text, lang, resp) ==
    pricing_reply(text, original_text, lang, get_prices_from_site(resp))

\* src/bot.py 265-389: the Arabic answers.
faq_ar(text, original_text, resp) ==
    IF any_in(services_ar, text) THEN FaqResult("services", Some(reply_services_ar))
    ELSE IF any_in(different_ar, text) THEN FaqResult("different", Some(reply_different_ar))
    ELSE IF any_in(fragrance_ar, text) THEN FaqResult("fragrance", Some(reply_fragrance_ar))
    ELSE IF any_in(offers_ar, text) THEN FaqResult("offers", Some(reply_offers_ar))
    ELSE IF any_in(contact_ar, text) THEN FaqResult("contact", Some(reply_contact_ar))
    ELSE IF any_in(coverage_ar, text) THEN FaqResult("coverage", Some(reply_coverage_ar))
    ELSE IF any_in(price_words_ar, text) THEN pricing_branch(text, original_text, "ar", resp)
    ELSE IF any_in(booking_ar, text) THEN FaqResult("booking", Some(reply_booking_ar))
    ELSE IF any_in(hours_ar, text) THEN FaqResult("hours", Some(reply_hours_ar))
    ELSE IF any_in(location_ar, text) THEN FaqResult("location", Some(reply_location_ar))
    ELSE FaqResult("none", None)

\* src/bot.py 455-464: whether the English pricing branch is taken.
is_price_query_en(text) ==
    LET has_price_word == any_in(price_words, text)
        has_item_word == any_in(common_items, text)
        short == ~has_price_word /\ ~has_item_word /\ Len(split(text)) <= 2
    IN  (has_price_word \/ short) \/ (has_item_word /\ Len(split(text)) <= 4)

\* src/bot.py 393-538: the English answers.
faq_en(text, original_text, resp) ==
    IF any_in(services_en, text) THEN FaqResult("services", Some(reply_services_en))
    ELSE IF any_in(different_en, text) THEN FaqResult("different", Some(reply_different_en))
    ELSE IF any_in(offers_en, text) THEN FaqResult("offers", Some(reply_offers_en))
    ELSE IF any_in(contact_en, text) THEN FaqResult("contact", Some(reply_contact_en))
    ELSE IF any_in(coverage_en, text) THEN FaqResult("coverage", Some(reply_coverage_en))
    ELSE IF any_in(fragrance_en, text) THEN FaqResult("fragrance", Some(reply_fragrance_en))
    ELSE IF is_price_query_en(text) THEN pricing_branch(text, original_text, "en", resp)
    ELSE IF any_in(booking_en, text) THEN FaqResult("booking", Some(reply_booking_en))
    ELSE IF any_in(hours_en, text) THEN FaqResult("hours", Some(reply_hours_en))
    ELSE IF any_in(location_en, text) THEN FaqResult("location", Some(reply_location_en))
    ELSE FaqResult("none", None)

\* src/bot.py 222-242: text is the lowercased, trimmed message, rewritten to
\* "price <item>" when it is exactly one of common_items.
faq_text(user_text) ==
    LET text == strip(lower(user_text))
    IN  IF member(text, common_items) THEN S("price ") \o text ELSE text

\* faq_answer(user_text, lang), with resp what the pricing endpoint answers
\* if the function asks it.
faq_answer(user_text, lang, resp) ==
    LET original_text == user_text
        text == faq_text(user_text)
    IN  IF lang = "ar" /\ any_in(complaint_ar, text)
        THEN FaqResult("complaint", Some(reply_complaint_ar))
        ELSE IF lang # "ar" /\ any_in(complaint_en, text)
        THEN FaqResult("complaint", Some(reply_complaint_en))
        ELSE IF lang = "ar" THEN faq_ar(text, original_text, resp)
        ELSE faq_en(text, original_text, resp)

\* ------------------------------------------------------------------------
\* generate_reply (src/bot.py 553-654)
\* ------------------------------------------------------------------------

MAX_HISTORY_CHARS == 2000
MAX_TOTAL_TOKENS == 1024

\* src/bot.py 603: max_length of the tokenizer call, which truncates.
MAX_INPUT_TOKENS == 896

\* What the tokenizer and the model do with the prompt, seen from
\* generate_reply: a call raises, or the prompt encodes to input_len tokens
\* (at most 896, truncation=True) and the decoded output is the prompt less
\* the "cut" characters the truncation dropped from its end, followed by the
\* sampled completion.
GenRaises == [kind |-> "raises"]
GenText(input_len, cut, completion) ==
    [kind |-> "text", input_len |-> input_len, cut |-> cut, completion |-> completion]

\* BUSINESS_CONTEXT.strip()
context_stripped == strip(BUSINESS_CONTEXT)

\* src/bot.py 580-595
prompt_of(history_text, user_text, lang) ==
    LET lang_instruction == IF lang = "ar" THEN lang_instruction_ar ELSE lang_instruction_en
        history_text_trimmed ==
            IF Len(history_text) > MAX_HISTORY_CHARS
            THEN SubSeq(history_text, Len(history_text) - MAX_HISTORY_CHARS + 1,
                        Len(history_text))
            ELSE history_text
    IN  strip(context_stripped \o NL \o NL \o lang_instruction \o NL \o NL
              \o strip(history_text_trimmed)
              \o NL \o S("User: ") \o user_text \o NL \o S("Jabir:"))

\* A slip: all the room left under the ceiling is asked for.
available_for_gen_unclamped(input_len) == MAX_TOTAL_TOKENS - input_len

\* src/bot.py 606-614: max_new_tokens for a prompt of input_len tokens.
available_for_gen(input_len) ==
    LET max_possible_new == MAX_TOTAL_TOKENS - input_len
        wanted == IF 128 < max_possible_new THEN 128 ELSE max_possible_new
    IN  IF wanted < 16
        THEN (IF 1 > max_possible_new THEN 1 ELSE max_possible_new)
        ELSE wanted

\* src/bot.py 626-650: Jabir's words in the decoded text, or the fixed apology.
\* src/bot.py 626-632: the text after the last "Jabir:" tag, found at
\* last_tag, or the tail after the prompt's length.
said_after(last_tag, full_text, prompt) ==
    IF last_tag # -1
    THEN strip(SubSeq(full_text, last_tag + Len(S("Jabir:")) + 1, Len(full_text)))
    ELSE strip(SubSeq(full_text, Len(prompt) + 1, Len(full_text)))

\* src/bot.py 637-650: nothing, or one character, gives the fixed apology.
or_fallback(said, lang) ==
    IF said = <<>> \/ Len(said) < 2
    THEN (IF lang = "ar" THEN fallback_reply_ar ELSE fallback_reply_en)
    ELSE said

bot_reply_of(full_text, prompt, lang) ==
    or_fallback(said_after(rfind(full_text, S("Jabir:")), full_text, prompt), lang)

\* A slip: the turn replaces the history instead of being appended to it.
with_turn_alone(history_text, user_text, reply) ==
    strip(NL \o S("User: ") \o user_text \o NL \o S("Jabir: ") \o reply)

\* f"\nUser: {user_text}\nJabir: {reply}" appended to the history, stripped
\* (src/bot.py 653, src/app.py 70 and 77).
with_turn(history_text, user_text, reply) ==
    strip(history_text \o NL \o S("User: ") \o user_text \o NL \o S("Jabir: ") \o reply)

\* generate_reply(tokenizer, model, history_text, user_text, lang): [exc,
\* new_history, bot_reply, max_new_tokens]; nothing catches what the
\* tokenizer or model.generate raises.
\* src/bot.py 624: tokenizer.decode of the model's output for the prompt.
decoded(prompt, gen) ==
    SubSeq(prompt, 1, IF gen.cut < Len(prompt) THEN Len(prompt) - gen.cut ELSE 0)
        \o gen.completion

\* src/bot.py 653-654
generated(history_text, user_text, bot_reply, max_new_tokens) ==
    [exc |-> "", new_history |-> with_turn(history_text, user_text, bot_reply),
     bot_reply |-> bot_reply, max_new_tokens |-> max_new_tokens]

\* src/bot.py 597-654, for the prompt built at 588-595.
generate_from(prompt, history_text, user_text, lang, gen) ==
    generated(history_text, user_text, bot_reply_of(decoded(prompt, gen), prompt, lang),
              available_for_gen(gen.input_len))

generate_reply(history_text, user_text, lang, gen) ==
    IF gen.kind = "raises"
    THEN [exc |-> "RuntimeError", new_history |-> history_text, bot_reply |-> <<>>,
          max_new_tokens |-> 0]
    ELSE generate_from(prompt_of(history_text, user_text, lang),
                       history_text, user_text, lang, gen)

\* ------------------------------------------------------------------------
\* chat (src/app.py 50-87)
\* ------------------------------------------------------------------------

\* src/app.py 57
reply_empty_message ==
    S("Please type a question about laundry, prices, pickup or offers ") \o <<128522>>

\* req.session_id or "default": None and "" give the shared key.
session_key(session_id) ==
    IF session_id = None \/ session_id[1] = "" THEN "default" ELSE session_id[1]

\* histories.get(session_id, "")
history_get(h, key) == IF key \in DOMAIN h THEN h[key] ELSE <<>>

\* A slip: the dict is replaced by one that holds the written session only.
history_set_alone(h, key, history_text) == [k \in {key} |-> history_text]

\* histories[session_id] = history_text
history_set(h, key, history_text) ==
    [k \in DOMAIN h \cup {key} |-> IF k = key THEN history_text ELSE h[k]]

\* src/app.py 65-87, after the history was read: what the request ends with.
\* status is "ok" with the reply, or "error" when an exception leaves chat
\* (the server then answers 500); calls lists the functions invoked, in
\* order, each with how it ended; write is Some(history_text) when
\* histories[session_id] is assigned.
calls_head(lang, small) ==
    << <<"detect_language", lang>>,
       <<"handle_small_talk_and_meta", IF small = None THEN "None" ELSE "reply">> >>

calls_faq(faq) ==
    << <<"faq_answer", IF faq.exc # "" THEN "raises"
                       ELSE IF faq.ret = None THEN "None" ELSE "reply">> >>
        \o [i \in 1..faq.fetches |->
               <<"get_prices_from_site", IF faq.exc # "" THEN "raises" ELSE "returns">>]

calls_model(model) ==
    << <<"generate_reply", IF model.exc # "" THEN "raises" ELSE "reply">> >>

\* A request that ends with a reply, which is appended to the history.
replied(reply, calls, user_text, history_text) ==
    [status |-> "ok", reply |-> reply, exc |-> "", calls |-> calls,
     write |-> Some(with_turn(history_text, user_text, reply))]

\* A request that ends with an exception leaving chat.
failed(exc, calls) ==
    [status |-> "error", reply |-> <<>>, exc |-> exc, calls |-> calls, write |-> None]

\* A slip: the small-talk reply is kept but the function goes on to the FAQ
\* matcher instead of returning at src/app.py 72.
chat_outcome_without_return(user_text, history_text, lang, small, faq, model) ==
    IF small # None
    THEN (IF faq.exc # "" THEN failed(faq.exc, calls_head(lang, small) \o calls_faq(faq))
          ELSE replied(small[1], calls_head(lang, small) \o calls_faq(faq),
                       user_text, history_text))
    ELSE IF faq.exc # ""
    THEN failed(faq.exc, calls_head(lang, small) \o calls_faq(faq))
    ELSE IF faq.ret # None
    THEN replied(faq.ret[1], calls_head(lang, small) \o calls_faq(faq),
                 user_text, history_text)
    ELSE IF model.exc # ""
    THEN failed(model.exc, calls_head(lang, small) \o calls_faq(faq) \o calls_model(model))
    ELSE [status |-> "ok", reply |-> model.bot_reply, exc |-> "",
          calls |-> calls_head(lang, small) \o calls_faq(faq) \o calls_model(model),
          write |-> Some(model.new_history)]

\* src/app.py 67-87, small, faq and model being what the three answerers
\* give when they are called.
chat_outcome(user_text, history_text, lang, small, faq, model) ==
    IF small # None
    THEN replied(small[1], calls_head(lang, small), user_text, history_text)
    ELSE IF faq.exc # ""
    THEN failed(faq.exc, calls_head(lang, small) \o calls_faq(faq))
    ELSE IF faq.ret # None
    THEN replied(faq.ret[1], calls_head(lang, small) \o calls_faq(faq),
                 user_text, history_text)
    ELSE IF model.exc # ""
    THEN failed(model.exc, calls_head(lang, small) \o calls_faq(faq) \o calls_model(model))
    ELSE [status |-> "ok", reply |-> model.bot_reply, exc |-> "",
          calls |-> calls_head(lang, small) \o calls_faq(faq) \o calls_model(model),
          write |-> Some(model.new_history)]

\* ------------------------------------------------------------------------
\* The server: requests to /jabir/chat handled by worker threads
\* ------------------------------------------------------------------------

\* chat is a plain "def" endpoint: the server runs each request in a worker
\* thread, so two requests may overlap.  A request touches the shared dict
\* twice, reading it at src/app.py 63 and assigning it at 71, 78 or 85; all
\* between is local to the request.  A request is therefore two steps, ChatRead
\* and ChatReply (one step, ChatEmpty, when the message is blank).
VARIABLES
    histories,    \* src/app.py 38: session_id -> history_text
    thread,       \* per worker thread: the request it is handling
    out,          \* per worker thread: how its last request ended
    nreq,         \* requests received so far
    faq_call,     \* a call of faq_answer on its own: input, then result
    prices_call,  \* a call of get_prices_from_site on its own: input, then result
    small_call,   \* a call of handle_small_talk_and_meta on its own
    gen_call      \* a call of generate_reply on its own

vars == <<histories, thread, out, nreq, faq_call, prices_call, small_call, gen_call>>

Threads == {"t1", "t2"}

\* Requests the model receives.
MaxRequests == 2

\* req is the request's session_id field, session_id the key made of it.
Idle == [pc |-> "idle", message |-> <<>>, user_text |-> <<>>, req |-> None,
         session_id |-> "", history_text |-> <<>>]

\* fetched lists what the pricing endpoint answered to the request's fetches.
NoResponse == [status |-> "none", message |-> <<>>, session_id |-> "", reply |-> <<>>,
               exc |-> "", calls |-> <<>>, fetched |-> <<>>]

NoCall == [stage |-> "off"]

\* src/app.py 38: histories = {}
ServerInit ==
    /\ histories = [k \in {} |-> <<>>]
    /\ thread = [t \in Threads |-> Idle]
    /\ out = [t \in Threads |-> NoResponse]
    /\ nreq = 0

\* A slip: the message is tested before it is stripped.
is_blank_unstripped(message) == message = <<>>

\* src/app.py 54-55: user_text is empty
is_blank(message) == strip(message) = <<>>

\* src/app.py 54-58: a blank message is answered at once.
ChatEmpty(t, message, session_id) ==
    /\ thread[t].pc = "idle"
    /\ nreq < MaxRequests
    /\ is_blank(message)
    /\ nreq' = nreq + 1
    /\ out' = [out EXCEPT ![t] =
                  [status |-> "ok", message |-> message, session_id |-> "",
                   reply |-> reply_empty_message, exc |-> "", calls |-> <<>>,
                   fetched |-> <<>>]]
    /\ UNCHANGED <<histories, thread, faq_call, prices_call, small_call, gen_call>>

\* src/app.py 54-63: a request with text; its session's history is read.
ChatRead(t, message, session_id) ==
    /\ thread[t].pc = "idle"
    /\ nreq < MaxRequests
    /\ ~is_blank(message)
    /\ nreq' = nreq + 1
    /\ thread' = [thread EXCEPT ![t] =
                     [pc |-> "read", message |-> message, user_text |-> strip(message),
                      req |-> session_id, session_id |-> session_key(session_id),
                      history_text |-> history_get(histories, session_key(session_id))]]
    /\ out' = [out EXCEPT ![t] = NoResponse]
    /\ UNCHANGED <<histories, faq_call, prices_call, small_call, gen_call>>

\* The pricing endpoint, or the model, in a request that does not call it.
NotAsked == [kind |-> "unasked"]

\* The answers of the pricing endpoint to the fetches listed in calls, each
\* fetch of the request being answered with resp.
fetched_of(calls, resp) ==
    [i \in 1..Len(SelectSeq(calls, LAMBDA c : c[1] = "get_prices_from_site")) |-> resp]

\* src/app.py 65-87: the reply is computed and the session's history is
\* assigned.  resp is what the pricing endpoint answers, one of responses for
\* a message on which faq_answer fetches the prices; gen is what the model
\* does, one of outcomes when neither small talk nor the FAQ has a reply.
ChatReply(t, responses, outcomes) ==
    /\ thread[t].pc = "read"
    /\ \E user_text \in {thread[t].user_text} :
       \E lang \in {detect_language(user_text)} :
       \E small \in {handle_small_talk_and_meta(user_text, lang)} :
       \E resp \in IF faq_answer(user_text, lang, HttpRaises).fetches > 0
                   THEN responses ELSE {NotAsked} :
       \E faq \in {faq_answer(user_text, lang, resp)} :
       \E gen \in IF small = None /\ faq.exc = "" /\ faq.ret = None
                  THEN outcomes ELSE {NotAsked} :
       \E r \in {chat_outcome(user_text, thread[t].history_text, lang, small, faq,
                              generate_reply(thread[t].history_text, user_text, lang,
                                             gen))} :
           /\ histories' = IF r.write # None
                           THEN history_set(histories, thread[t].session_id, r.write[1])
                           ELSE histories
           /\ out' = [out EXCEPT ![t] =
                         [status |-> r.status, message |-> thread[t].message,
                          session_id |-> thread[t].session_id, reply |-> r.reply,
                          exc |-> r.exc, calls |-> r.calls,
                          fetched |-> fetched_of(r.calls, resp)]]
    /\ thread' = [thread EXCEPT ![t] = Idle]
    /\ UNCHANGED <<nreq, faq_call, prices_call, small_call, gen_call>>

\* ------------------------------------------------------------------------
\* Inputs: bodies of the pricing endpoint, model outcomes, messages
\* ------------------------------------------------------------------------

\* {"name": name, "price": price}
Pkg(name, price) == JObj(<< <<S("name"), JStr(name)>>, <<S("price"), JNum(price)>> >>)

\* {"packages": [...]}
Packages(list) == JObj(<< <<S("packages"), JList(list)>> >>)

\* The body of the documented shape (src/bot.py 69-74).
AbayaPkg ==
    JObj(<< <<S("name"), JStr(S("Abaya"))>>, <<S("price"), JNum(15)>>,
            <<S("itemtype"), JList(<< JObj(<< <<S("Dry Clean"), JStr(S("15 aed"))>> >>),
                                      JObj(<< <<S("Steam"), JStr(S("8 aed"))>> >>) >>)>> >>)

KandooraPkg ==
    JObj(<< <<S("name"), JStr(S(" Kandoora "))>>, <<S("price"), JNum(7)>> >>)

SmallBody == Packages(<<KandooraPkg, AbayaPkg, Pkg(S("Price Plan Basic"), 99)>>)

\* A package named after each of common_items, in that order.
ItemsBody ==
    Packages([i \in 1..Len(common_items) |->
                 Pkg(capitalize(common_items[i]) \o S(" (per piece)"), i)])

\* Largest generated catalog.
MaxCatalog == 13

\* n packages "Shirt 1" .. "Shirt n".
ShirtBody(n) == Packages([i \in 1..n |-> Pkg(S("Shirt ") \o str_int(i), i)])

\* What the pricing endpoint answers during a call of faq_answer.
FaqResponses ==
    { HttpRaises, HttpJson(500, SmallBody), HttpBadBody(200),
      HttpJson(200, JList(<<AbayaPkg>>)), HttpJson(200, Packages(<<JStr(S("abaya"))>>)),
      HttpJson(200, JObj(<< <<S("packages"), JStr(S("none"))>> >>)),
      HttpJson(200, Packages(<<AbayaPkg>>)), HttpJson(200, SmallBody),
      HttpJson(200, ItemsBody) }
        \cup { HttpJson(200, ShirtBody(n)) : n \in 0..MaxCatalog }

\* " Abaya " for "abaya": a bare item name with capitals and spaces around it.
padded(item) == S("  ") \o capitalize(item) \o S(" ")

ItemMessages ==
    {common_items[i] : i \in 1..Len(common_items)}
        \cup {padded(common_items[i]) : i \in 1..Len(common_items)}

\* The messages of the requests to /jabir/chat: empty, whitespace only, a
\* greeting, a bare item name, a question no matcher knows.
ChatMessages ==
    { <<>>, S(" ") \o <<9, 10>>, S(" Hi "), S("abaya"),
      S("tell me something funny about camels") }

\* Ways of asking where an order is, how to pay, and how to log in.
TrackingMessages ==
    { S("track my order"), S("where is my order"), S("what is my order status"),
      S("order tracking"), Ar("ttbE AlTlb") }

PaymentMessages ==
    { S("how can i pay"), S("payment"), S("payment methods accepted"),
      S("can i pay by card on delivery"), Ar("kyf AdfE") }

LoginMessages ==
    { S("login"), S("how do i login"), S("i cannot log in to my account"),
      S("otp not received"), Ar("tsjyl Aldxwl") }

\* Messages for faq_answer besides the bare item names: one or more per branch
\* of either language, and the questions about an order, a payment, a login.
FaqOtherMessages ==
    { S("price of abaya"), S("how much for a blanket"), S("Price list please"),
      S("what is the cost of washing a carpet"), S("i want to wash my shirt"),
      S("my kids clothes need washing today please ok"), S("pickup"), S("location"),
      S("working hours"), S("Book pickup"), S("our shop"), S("offers"), S("whatsapp number"),
      S("hello there"), S("ok"), S("you are not answering"), S("what services do you offer"),
      S("why choose you"), S("any discount today"), S("what is your whatsapp number"),
      S("do you serve my area"), S("do you have bakhoor"),
      S("can you collect my laundry tomorrow morning"),
      S("what are your working hours today"), S("where are you based in dubai"),
      S("tell me something funny about camels"), S("bakhoor offer"),
      S("is rose wash in my area"),
      Ar("km sEr AlEbAyp"), Ar("bkm gsyl") \o S(" ") \o S("shirt"), Ar("AlAsEAr"),
      Ar("mA trd"), Ar("mA hy xdmAtkm"), Ar("ly$ AxtArkm"), Ar("Endkm bxwr"), Ar("fy xSm"),
      Ar("rqm AlwAtsAb"), Ar("txdmwn mnTqty"), Ar("Aryd Hjz AstlAm"), Ar("mtY tftHwn"),
      Ar("wyn mwqEkm"), Ar("AHky ly qSp"), S("abaya ") \o Ar("bkm") }
        \cup TrackingMessages \cup PaymentMessages \cup LoginMessages

FaqMessages == ItemMessages \cup FaqOtherMessages

\* What the pricing endpoint answers during a request to /jabir/chat.
ChatResponses == { HttpRaises, HttpJson(200, JList(<<AbayaPkg>>)), HttpJson(200, SmallBody) }

\* What the model does during a request to /jabir/chat: it raises; it
\* continues the prompt with a sentence; it adds one character; the prompt
\* lost its last 7 characters ("\nJabir:") to the truncation and the model
\* added a word.
GenOutcomes ==
    { GenRaises,
      GenText(600, 0, S(" We can help you with that.")),
      GenText(MAX_INPUT_TOKENS, 0, S(" k")),
      GenText(MAX_INPUT_TOKENS, 7, S(" Sure")) }

\* What the model does during a call of generate_reply on its own: a prompt
\* of every length the truncating tokenizer can give, continued by a sentence.
GenLengths ==
    { GenText(input_len, 0, S(" We can help you with that.")) :
          input_len \in 0..MAX_INPUT_TOKENS }

\* The histories and messages of those calls.
GenHistories == { <<>>, S("User: hi") \o NL \o S("Jabir: Ahlan!") }
GenMessages == { S("tell me something funny about camels"), Ar("AHky ly qSp") }

\* {"name": name, "itemtype": itemtype}
PkgTyped(name, itemtype) ==
    JObj(<< <<S("name"), JStr(name)>>, <<S("itemtype"), itemtype>> >>)

\* Entries of a packages array: of the documented shape; with a price only;
\* with variants only; with a blank or no name; with neither price nor
\* variants (absent, null, empty, of the wrong type); with a name or a price
\* of the wrong type; a second entry for the same key; entries that are no
\* object.
PriceEntries ==
    { AbayaPkg, KandooraPkg, Pkg(S("ABAYA"), 20),
      PkgTyped(S("Dress"), JList(<< JObj(<< <<S("Steam"), JStr(S("8 aed"))>> >>) >>)),
      Pkg(S("  "), 3),
      JObj(<< <<S("price"), JNum(3)>> >>),
      JObj(<< <<S("name"), JStr(S("Towel"))>> >>),
      JObj(<< <<S("name"), JStr(S("Towel"))>>, <<S("price"), JNull>>,
              <<S("itemtype"), JList(<<>>)>> >>),
      PkgTyped(S("Cap"), JStr(S("steam"))),
      PkgTyped(S("Cap"), JList(<< JStr(S("steam")), JNum(3) >>)),
      PkgTyped(S("Cap"), JList(<< JObj(<<>>) >>)),
      JObj(<< <<S("name"), JNum(7)>>, <<S("price"), JBool(FALSE)>> >>),
      JObj(<< <<S("name"), JNull>>, <<S("price"), JStr(S("12.50"))>> >>),
      JStr(S("abaya")), JNull, JNum(3), JList(<<>>) }

\* Longest generated packages array.
MaxPackages == 2

\* The JSON bodies: an object with a packages array of up to MaxPackages
\* entries, with packages absent or no array, and values that are no object.
PriceBodies ==
    { Packages(list) : list \in UNION { [1..n -> PriceEntries] : n \in 0..MaxPackages } }
        \cup { JObj(<<>>), JObj(<< <<S("items"), JList(<<AbayaPkg>>)>> >>),
               JObj(<< <<S("packages"), JStr(S("none"))>> >>),
               JObj(<< <<S("packages"), JNull>> >>),
               JObj(<< <<S("packages"), AbayaPkg>> >>),
               JList(<<AbayaPkg>>), JList(<<>>), JStr(S("ok")), JNum(0), JNull,
               JBool(FALSE) }

\* The statuses of a response: two of success, two of failure.
Statuses == {200, 201, 404, 500}

\* What the pricing endpoint answers during a call of get_prices_from_site.
PriceResponses ==
    {HttpRaises}
        \cup { HttpBadBody(status) : status \in Statuses }
        \cup { HttpJson(status, body) : status \in Statuses, body \in PriceBodies }

\* req.session_id: absent, empty, or an id.
SessionIds == { None, Some(""), Some("s1") }

\* Every phrase handle_small_talk_and_meta looks for, Arabic then English.
SmallPhrases ==
    arabic_greetings \o thanks_ar \o compliments_ar \o identity_ar \o capability_ar
        \o greeting_patterns \o thanks_en \o compliments_en \o identity_en \o capability_en

\* Messages for handle_small_talk_and_meta: each phrase alone, capitalized
\* between spaces, and followed by each other phrase (two categories, or two
\* scripts, in one message); a phrase inside a sentence of the other script;
\* messages that hold no phrase.
SmallMessages ==
    { SmallPhrases[i] : i \in 1..Len(SmallPhrases) }
        \cup { padded(SmallPhrases[i]) : i \in 1..Len(SmallPhrases) }
        \cup { SmallPhrases[i] \o S(" ") \o SmallPhrases[j] :
                   i, j \in 1..Len(SmallPhrases) }
        \cup { S("thanks ") \o Ar("yA jAbr"), Ar("mrHbA") \o S(" jabir"),
               Ar("yA jAbr") \o S(" who are you?"), S("abaya"), Ar("km sEr AlEbAyp"),
               S("this is a thin shirt") }

\* ------------------------------------------------------------------------
\* Specifications
\* ------------------------------------------------------------------------

\* No call of a function on its own is under way.
NoCalls ==
    faq_call = NoCall /\ prices_call = NoCall /\ small_call = NoCall /\ gen_call = NoCall

Init == ServerInit /\ NoCalls

Next ==
    \E t \in Threads :
        \/ \E message \in ChatMessages, session_id \in SessionIds :
               ChatEmpty(t, message, session_id)
        \/ \E message \in ChatMessages, session_id \in SessionIds :
               ChatRead(t, message, session_id)
        \/ ChatReply(t, ChatResponses, GenOutcomes)

\* The server.
Spec == Init /\ [][Next]_vars

\* faq_answer on its own, as chat calls it: on the trimmed message, with the
\* language detect_language gives for it.
InitFaq ==
    /\ ServerInit /\ prices_call = NoCall /\ small_call = NoCall /\ gen_call = NoCall
    /\ \E message \in FaqMessages, resp \in FaqResponses :
           faq_call = [stage |-> "input", message |-> message, resp |-> resp,
                       result |-> FaqResult("none", None)]

FaqCall ==
    /\ faq_call.stage = "input"
    /\ faq_call' = [faq_call EXCEPT
                       !.stage = "done",
                       !.result = faq_answer(strip(faq_call.message),
                                             detect_language(strip(faq_call.message)),
                                             faq_call.resp)]
    /\ UNCHANGED <<histories, thread, out, nreq, prices_call, small_call, gen_call>>

SpecFaq == InitFaq /\ [][FaqCall]_vars

\* get_prices_from_site on its own.
InitPrices ==
    /\ ServerInit /\ faq_call = NoCall /\ small_call = NoCall /\ gen_call = NoCall
    /\ \E resp \in PriceResponses :
           prices_call = [stage |-> "input", resp |-> resp,
                          result |-> [exc |-> "", ret |-> None]]

PricesCall ==
    /\ prices_call.stage = "input"
    /\ prices_call' = [prices_call EXCEPT
                          !.stage = "done",
                          !.result = get_prices_from_site(prices_call.resp)]
    /\ UNCHANGED <<histories, thread, out, nreq, faq_call, small_call, gen_call>>

SpecPrices == InitPrices /\ [][PricesCall]_vars

\* handle_small_talk_and_meta on its own, as chat calls it: on the trimmed
\* message, with the language detect_language gives for it.
InitSmall ==
    /\ ServerInit /\ faq_call = NoCall /\ prices_call = NoCall /\ gen_call = NoCall
    /\ \E message \in SmallMessages :
           small_call = [stage |-> "input", message |-> message, result |-> None]

SmallCall ==
    /\ small_call.stage = "input"
    /\ small_call' = [small_call EXCEPT
                         !.stage = "done",
                         !.result = handle_small_talk_and_meta(
                                        strip(small_call.message),
                                        detect_language(strip(small_call.message)))]
    /\ UNCHANGED <<histories, thread, out, nreq, faq_call, prices_call, gen_call>>

SpecSmall == InitSmall /\ [][SmallCall]_vars

\* generate_reply on its own, with the language detect_language gives for
\* the message.
InitGen ==
    /\ ServerInit /\ faq_call = NoCall /\ prices_call = NoCall /\ small_call = NoCall
    /\ \E history_text \in GenHistories, user_text \in GenMessages, gen \in GenLengths :
           gen_call = [stage |-> "input", history_text |-> history_text,
                       user_text |-> user_text, gen |-> gen,
                       result |-> generated(<<>>, <<>>, <<>>, 0)]

GenCall ==
    /\ gen_call.stage = "input"
    /\ gen_call' = [gen_call EXCEPT
                       !.stage = "done",
                       !.result = generate_reply(gen_call.history_text, gen_call.user_text,
                                                 detect_language(gen_call.user_text),
                                                 gen_call.gen)]
    /\ UNCHANGED <<histories, thread, out, nreq, faq_call, prices_call, small_call>>

SpecGen == InitGen /\ [][GenCall]_vars

\* ------------------------------------------------------------------------
\* Properties of chat (checked under Spec)
\* ------------------------------------------------------------------------

\* A request of thread t has ended; one that had text to answer.
Finished(t) == out[t].status # "none"
Answered(t) == Finished(t) /\ out[t].calls # <<>>

\* A message that is empty or holds whitespace only.
Blank(message) == \A i \in 1..Len(message) : message[i] \in Whitespace

\* C1: every request to chat ends with a non-empty reply and no error reaches
\* the caller, whatever the pricing fetch and the generative completion do.
C1_AlwaysReplies ==
    \A t \in Threads : Finished(t) => out[t].status = "ok" /\ out[t].reply # <<>>

\* C2: for a non-empty message chat tries small talk, then the FAQ, then the
\* generative fallback, and stops at the first that replies: a small-talk
\* match is the reply and neither faq_answer nor generate_reply is invoked;
\* after an FAQ reply generate_reply is not invoked; generate_reply is invoked
\* exactly when both earlier matchers returned None.
C2_StrictOrder ==
    \A t \in Threads : Answered(t) =>
        LET c == out[t].calls
            user_text == strip(out[t].message)
            small == handle_small_talk_and_meta(user_text, detect_language(user_text))
            called(fn) == \E i \in 1..Len(c) : c[i][1] = fn
            ended(fn, how) == \E i \in 1..Len(c) : c[i] = <<fn, how>>
            before(f, g) ==
                \A i, j \in 1..Len(c) : c[i][1] = f /\ c[j][1] = g => i < j
        IN  /\ called("handle_small_talk_and_meta")
            /\ before("handle_small_talk_and_meta", "faq_answer")
            /\ before("faq_answer", "generate_reply")
            /\ small # None =>
                  /\ out[t].reply = small[1]
                  /\ ~called("faq_answer") /\ ~called("generate_reply")
            /\ small = None => called("faq_answer")
            /\ ended("faq_answer", "reply") => ~called("generate_reply")
            /\ called("generate_reply") <=>
                  ended("handle_small_talk_and_meta", "None") /\ ended("faq_answer", "None")

\* One request stopped at small talk and another went through all three.
C2_Witness ==
    \E t, u \in Threads :
        /\ Answered(t) /\ Len(out[t].calls) = 2
        /\ out[t].calls[2] = <<"handle_small_talk_and_meta", "reply">>
        /\ Answered(u) /\ out[u].calls[Len(out[u].calls)] = <<"generate_reply", "reply">>

\* C3: a message that is empty or only whitespace is answered with exactly
\* the fixed prompt, with no language detection, matcher, pricing fetch or
\* generative fallback invoked (the request never gets as far as reading its
\* history), and the step that answers it leaves every history unchanged.
C3_BlankMessage ==
    [][ \A t \in Threads :
          /\ thread'[t].pc = "read" => ~Blank(thread'[t].message)
          /\ out'[t].status # "none" /\ Blank(out'[t].message) =>
                /\ out'[t].status = "ok"
                /\ out'[t].reply = reply_empty_message
                /\ out'[t].calls = <<>>
          /\ out'[t] # out[t] /\ out'[t].status # "none" /\ Blank(out'[t].message) =>
                histories' = histories ]_vars

\* A whitespace-only message was answered while a session had a history.
C3_Witness ==
    \E t \in Threads :
        /\ Finished(t) /\ out[t].message # <<>> /\ Blank(out[t].message)
        /\ out[t].reply = reply_empty_message
        /\ DOMAIN histories # {}

\* ------------------------------------------------------------------------
\* Properties of get_prices_from_site (checked under SpecPrices)
\* ------------------------------------------------------------------------

PricesDone == prices_call.stage = "done"

\* A packages entry with an empty name: none, or blank text.
EmptyName(pkg) ==
    LET name == dict_get(pkg, S("name"), JStr(<<>>))
    IN  name.t = "str" /\ Blank(name.s)

\* A packages entry with no price, and one with no itemtype variants.
NoPrice(pkg) == dict_get(pkg, S("price"), JNull).t = "null"
NoVariants(pkg) ==
    LET itemtype == dict_get(pkg, S("itemtype"), JList(<<>>))
    IN  itemtype.t # "list"
        \/ \A i \in 1..Len(itemtype.l) : itemtype.l[i].t # "obj" \/ itemtype.l[i].o = <<>>

\* A packages entry that yields no description.
NoDescription(pkg) == pkg.t = "obj" /\ (EmptyName(pkg) \/ (NoPrice(pkg) /\ NoVariants(pkg)))

\* A JSON object whose packages field is absent or no array, or an array in
\* which no entry yields a description.
NoUsablePackages(body) ==
    /\ body.t = "obj"
    /\ \/ ~\E k \in 1..Len(body.o) : body.o[k][1] = S("packages")
       \/ LET packages == dict_get(body, S("packages"), JList(<<>>))
          IN  \/ packages.t # "list"
              \/ \A i \in 1..Len(packages.l) : NoDescription(packages.l[i])

ReturnedNone == prices_call.result = [exc |-> "", ret |-> None]

C6_NeverRaises ==
    PricesDone /\ prices_call.resp.kind = "response" /\ prices_call.resp.valid
        => prices_call.result.exc = ""

\* ------------------------------------------------------------------------
\* Properties of faq_answer (checked under SpecFaq)
\* ------------------------------------------------------------------------

FaqDone == faq_call.stage = "done"

\* The message as chat passes it, and its language.
FaqUser == strip(faq_call.message)
FaqLang == detect_language(FaqUser)

\* What the catalog fetch yields during the call: None, or the catalog.
FetchYieldsNone == get_prices_from_site(faq_call.resp) = [exc |-> "", ret |-> None]
Catalog ==
    LET got == get_prices_from_site(faq_call.resp)
    IN  IF got.exc = "" /\ got.ret # None THEN got.ret[1] ELSE <<>>

\* The whitespace-separated tokens of a text.
Tokens(text) ==
    { SubSeq(text, p[1], p[2]) : p \in
        { p \in (1..Len(text)) \X (1..Len(text)) :
            /\ p[1] <= p[2]
            /\ \A k \in p[1]..p[2] : text[k] \notin Whitespace
            /\ p[1] = 1 \/ text[p[1] - 1] \in Whitespace
            /\ p[2] = Len(text) \/ text[p[2] + 1] \in Whitespace } }

\* The query of a pricing reply: the text faq_answer matches on, lowercased,
\* trimmed, a bare item name made "price <item>"; its tokens longer than 2.
Query == faq_text(FaqUser)
QueryWords == {token \in Tokens(Query) : Len(token) > 2}

\* A catalog key the words match: some word is a substring of the key.
KeyMatched(words, key) == \E word \in words : contains(word, key)
MatchedKeys(words, catalog) == {i \in 1..Len(catalog) : KeyMatched(words, catalog[i][1])}

\* A pricing reply built from a non-empty catalog, its text and item lines.
PricingReply ==
    /\ FaqDone /\ faq_call.result.branch = "pricing"
    /\ faq_call.result.exc = "" /\ faq_call.result.ret # None /\ Catalog # <<>>
Reply == faq_call.result.ret[1]
ItemLinesOf(reply) == SelectSeq(lines_of(reply), LAMBDA line : startswith(line, S("- ")))

\* "<Capitalized key>: <description>"
Described(item) == capitalize(item[1]) \o S(": ") \o item[2]

\* The 20%-off-first-3-orders reminder, in English or in Arabic.
HasReminder(reply) ==
    /\ contains(S("20%"), reply)
    /\ (contains(S("first 3 orders"), reply)
           \/ contains(Ar(">wl") \o S(" 3 ") \o Ar("TlbAt"), reply))

\* C4: when the message is a pricing intent and the catalog fetch yields
\* None, faq_answer returns exactly the fixed "couldn't fetch" message of the
\* detected language, which holds the 20% reminder, and does not raise.
C4_NoPricesMessage ==
    FaqDone /\ faq_call.result.branch = "pricing" /\ FetchYieldsNone =>
        /\ faq_call.result.exc = ""
        /\ faq_call.result.ret =
              Some(IF FaqLang = "ar" THEN reply_no_prices_ar ELSE reply_no_prices_en)
        /\ HasReminder(faq_call.result.ret[1])

\* An Arabic price question met a failed request and got the Arabic message.
C4_Witness ==
    /\ FaqDone /\ faq_call.result.branch = "pricing" /\ FetchYieldsNone
    /\ faq_call.resp.kind = "raises" /\ FaqLang = "ar"
    /\ faq_call.result.ret = Some(reply_no_prices_ar)

\* An English message that is an item of common_items once lowercased and
\* trimmed.
ItemName == strip(lower(FaqUser))
BareItem == FaqLang = "en" /\ \E k \in 1..Len(common_items) : common_items[k] = ItemName

\* The keys holding the name are described in the reply, with the reminder:
\* all of them, or those with fewer than cap matched keys before them.
KeysShown(name, words, catalog, result, cap) ==
    \A i \in 1..Len(catalog) :
        (/\ contains(name, catalog[i][1])
         /\ (cap >= 0 => Cardinality({j \in MatchedKeys(words, catalog) : j < i}) < cap))
        => (/\ result.ret # None
            /\ contains(Described(catalog[i]), result.ret[1])
            /\ HasReminder(result.ret[1]))

\* C7 as stated: a bare item name is rewritten to a pricing query and goes to
\* the pricing branch, and whenever the catalog has a key containing the name
\* the reply holds "<Capitalized key>: <description>" and the reminder.
C7_EveryKeyShown ==
    FaqDone /\ BareItem =>
        /\ Query = S("price ") \o ItemName
        /\ faq_call.result.branch = "pricing"
        /\ KeysShown(ItemName, QueryWords, Catalog, faq_call.result, -1)

\* C7, amended: a bare item name is rewritten to a pricing query and goes to
\* the pricing branch, never to another branch or the fallback; whenever the
\* catalog has a key containing the name with fewer than 12 matched keys
\* before it, the reply holds "<Capitalized key>: <description>" and the
\* reminder.
C7_FirstTwelveShown ==
    FaqDone /\ BareItem =>
        /\ Query = S("price ") \o ItemName
        /\ faq_call.result.branch = "pricing"
        /\ KeysShown(ItemName, QueryWords, Catalog, faq_call.result, 12)

\* "  Shirt " met a catalog of 13 shirts and the reply shows the twelfth.
ShowsTwelfth(name, catalog) ==
    /\ Len(catalog) = 13 /\ contains(name, catalog[12][1])
    /\ contains(Described(catalog[12]), Reply)

C7_Witness ==
    /\ PricingReply /\ BareItem /\ FaqUser # ItemName /\ faq_call.message # FaqUser
    /\ ShowsTwelfth(ItemName, Catalog)

\* At most 12 item lines when a key matched, at most 8 when none did.
Capped(lines, matches) ==
    /\ matches # {} => Len(lines) <= 12
    /\ matches = {} => Len(lines) <= 8

\* C8: a pricing reply built from a non-empty catalog has at most 12 item
\* lines when some key matched and at most 8 when none did.
C8_ItemLinesCapped ==
    PricingReply => Capped(ItemLinesOf(Reply), MatchedKeys(QueryWords, Catalog))

\* 13 keys matched and 12 are shown.
C8_Witness ==
    /\ PricingReply /\ Len(ItemLinesOf(Reply)) = 12
    /\ Cardinality(MatchedKeys(QueryWords, Catalog)) = 13

\* The reply opens with the line that introduces matched prices.
ListsMatches(reply) ==
    \/ startswith(reply, S("Here are the prices I found:"))
    \/ startswith(reply, Ar("h*h bED Al>sEAr Alty wjdthA"))

\* The reply lists matches exactly when matched is not empty, and then its
\* item lines are the first 12 of matched, each once.
ListsFirstTwelve(reply, lines, matched) ==
    /\ ListsMatches(reply) <=> matched # <<>>
    /\ ListsMatches(reply) =>
          /\ lines = [i \in 1..(IF Len(matched) < 12 THEN Len(matched) ELSE 12) |->
                         S("- ") \o Described(matched[i])]
          /\ \A i, j \in 1..Len(lines) : lines[i] = lines[j] => i = j

\* The items of the catalog, in its order, whose key the words match.
MatchedItems(words, catalog) == SelectSeq(catalog, LAMBDA item : KeyMatched(words, item[1]))

\* C9: a pricing reply lists a key as matched if and only if some token of
\* the query longer than 2 is a substring of the key; each such key once, in
\* the catalog's order, the first 12 of them.
C9_MatchedKeysListed ==
    PricingReply => ListsFirstTwelve(Reply, ItemLinesOf(Reply), MatchedItems(QueryWords, Catalog))

\* A query with a token of 2 characters listed two keys after an unmatched
\* first key.
C9_Witness ==
    /\ PricingReply /\ ListsMatches(Reply) /\ Len(ItemLinesOf(Reply)) = 2
    /\ 1 \notin MatchedKeys(QueryWords, Catalog)
    /\ \E token \in Tokens(Query) : Len(token) = 2

\* C10: a question about tracking an order, about payment or about login is
\* answered with that intent's own instructions, ahead of the services,
\* pricing and booking branches: never by one of these, never by None.
C10_OwnInstructions ==
    FaqDone /\ faq_call.message \in TrackingMessages \cup PaymentMessages \cup LoginMessages =>
        /\ faq_call.result.exc = "" /\ faq_call.result.ret # None
        /\ faq_call.result.branch \notin {"services", "pricing", "booking"}

\* ------------------------------------------------------------------------
\* Properties of handle_small_talk_and_meta (checked under SpecSmall)
\* ------------------------------------------------------------------------

SmallDone == small_call.stage = "done"
SmallUser == strip(small_call.message)
SmallLang == detect_language(SmallUser)

\* The canned replies of each language, in the order greeting, thanks,
\* compliment, identity, capability.
CannedReplies(lang) ==
    IF lang = "ar"
    THEN <<reply_greeting_ar, reply_thanks_ar, reply_compliment_ar, reply_identity_ar,
           reply_capability_ar>>
    ELSE <<reply_greeting_en, reply_thanks_en, reply_compliment_en, reply_identity_en,
           reply_capability_en>>

IsCanned(reply, lang) == \E c \in 1..5 : CannedReplies(lang)[c] = reply

\* Whether the lowercased, trimmed message belongs to category c (1..5) of the
\* language: it is one of the greetings, or holds one of the category's phrases.
InCategory(text, lang, c) ==
    LET phrases ==
            IF lang = "ar"
            THEN <<arabic_greetings, thanks_ar, compliments_ar, identity_ar, capability_ar>>
            ELSE <<greeting_patterns, thanks_en, compliments_en, identity_en, capability_en>>
    IN  IF c = 1 THEN text \in {phrases[1][k] : k \in 1..Len(phrases[1])}
        ELSE \E k \in 1..Len(phrases[c]) : contains(phrases[c][k], text)

\* C11: handle_small_talk_and_meta returns None or a canned reply of the
\* detected language, so for a message detected as Arabic (mixed script
\* included) never an English canned reply; and the categories are tried in
\* the order greeting, thanks, compliment, identity, capability, the first
\* one the message belongs to giving the reply.
C11_DetectedLanguage ==
    SmallDone =>
        LET ret == small_call.result
            text == strip(lower(SmallUser))
            hits == {c \in 1..5 : InCategory(text, SmallLang, c)}
        IN  /\ ret = None \/ IsCanned(ret[1], SmallLang)
            /\ SmallLang = "ar" /\ ret # None => ~IsCanned(ret[1], "en")
            /\ hits # {} => ret = Some(CannedReplies(SmallLang)[SetMin(hits)])

\* ------------------------------------------------------------------------
\* The order of the intents of faq_answer (checked under SpecFaq)
\* ------------------------------------------------------------------------

\* The documented order of the intents.
DocumentedOrder ==
    <<"complaint", "services", "different", "fragrance", "offers", "contact", "coverage",
      "pricing", "booking", "hours", "location">>

\* Whether the text holds a trigger of the intent in the language.
Triggered(intent, text, lang) ==
    LET ar == lang = "ar"
    IN  CASE intent = "complaint" -> any_in(IF ar THEN complaint_ar ELSE complaint_en, text)
          [] intent = "services" -> any_in(IF ar THEN services_ar ELSE services_en, text)
          [] intent = "different" -> any_in(IF ar THEN different_ar ELSE different_en, text)
          [] intent = "fragrance" -> any_in(IF ar THEN fragrance_ar ELSE fragrance_en, text)
          [] intent = "offers" -> any_in(IF ar THEN offers_ar ELSE offers_en, text)
          [] intent = "contact" -> any_in(IF ar THEN contact_ar ELSE contact_en, text)
          [] intent = "coverage" -> any_in(IF ar THEN coverage_ar ELSE coverage_en, text)
          [] intent = "pricing" ->
                 IF ar THEN any_in(price_words_ar, text) ELSE is_price_query_en(text)
          [] intent = "booking" -> any_in(IF ar THEN booking_ar ELSE booking_en, text)
          [] intent = "hours" -> any_in(IF ar THEN hours_ar ELSE hours_en, text)
          [] intent = "location" -> any_in(IF ar THEN location_ar ELSE location_en, text)

\* The intents, by their place in the documented order, whose trigger the
\* text holds.
TriggeredIn(text, lang) ==
    {i \in 1..Len(DocumentedOrder) : Triggered(DocumentedOrder[i], text, lang)}

\* C12: in both languages faq_answer takes the first intent, in the order
\* complaint, services, differentiator, fragrance, offers, contact, coverage,
\* pricing, booking, hours, location, whose trigger the message holds; so a
\* message with a fragrance trigger and an offers, contact or coverage trigger
\* gets the fragrance reply.
C12_DocumentedOrder ==
    FaqDone =>
        \E hits \in {TriggeredIn(Query, FaqLang)} :
            faq_call.result.branch =
                IF hits = {} THEN "none" ELSE DocumentedOrder[SetMin(hits)]

\* ------------------------------------------------------------------------
\* Properties of generate_reply (checked under SpecGen)
\* ------------------------------------------------------------------------

GenDone == gen_call.stage = "done" /\ gen_call.result.exc = ""

\* The generation budget is at least 16 and at most 128.
BudgetInRange == 16 <= gen_call.result.max_new_tokens /\ gen_call.result.max_new_tokens <= 128

\* Prompt tokens plus generation budget.
TotalTokens == gen_call.gen.input_len + gen_call.result.max_new_tokens

Turn(user_text, reply) == NL \o S("User: ") \o user_text \o NL \o S("Jabir: ") \o reply

\* The turn of the request thread t has finished.
TurnOf(t) == Turn(strip(out[t].message), out[t].reply)

IsPrefix(old, new) == Len(old) <= Len(new) /\ SubSeq(new, 1, Len(old)) = old

\* The history stored for a session, empty when none is.
StoredFor(h, key) == IF key \in DOMAIN h THEN h[key] ELSE <<>>

\* The key of a request: its session id, or "default" when it has none.
OwnKey(req) == IF req = None \/ req = Some("") THEN "default" ELSE req[1]

\* Every session but key has the same history in h and in g.
OthersKept(h, g, key) ==
    \A k \in (DOMAIN h \cup DOMAIN g) \ {key} :
        k \in DOMAIN h /\ k \in DOMAIN g /\ h[k] = g[k]

\* The step in which thread t computes its reply and ends its request.
ReplyStep(t) == thread[t].pc = "read" /\ thread'[t].pc = "idle"

\* C14: requests being handled one after another (the stored history of the
\* session is the one the request read), every answered non-empty message
\* extends the history of its own session, "default" when it names none, by
\* exactly one "User: ... / Jabir: ..." turn, the previous history being kept
\* as a prefix, whether small talk, the FAQ or the model gave the reply; and
\* it leaves the history of every other session unchanged.
C14_AppendOnly ==
    [][ \A t \in Threads :
          ReplyStep(t) /\ out'[t].status = "ok" =>
              \E key \in {OwnKey(thread[t].req)} :
              \E old \in {StoredFor(histories, key)} :
              \E new \in {StoredFor(histories', key)} :
                  /\ out'[t].session_id = key
                  /\ OthersKept(histories, histories', key)
                  /\ old = thread[t].history_text =>
                        /\ new = strip(old \o Turn(thread[t].user_text, out'[t].reply))
                        /\ IsPrefix(old, new) /\ Len(new) > Len(old)
      ]_vars

\* The shared session holds two turns, the second one given by the model,
\* and the first turn is how its history begins.
C14_Witness ==
    \E t, u \in Threads :
        /\ t # u /\ Answered(t) /\ Answered(u)
        /\ out[t].session_id = "default" /\ out[u].session_id = "default"
        /\ out[t].calls[Len(out[t].calls)] = <<"handle_small_talk_and_meta", "reply">>
        /\ out[u].calls[Len(out[u].calls)] = <<"generate_reply", "reply">>
        /\ histories["default"] = strip(TurnOf(t)) \o TurnOf(u)

\* Each write puts, for the session of the request, the history the request
\* read followed by its turn, whatever is stored by then, and touches no
\* other session; a request that ends with an error writes nothing.
LastWriteWins ==
    \A t \in Threads :
        ReplyStep(t) =>
            histories' =
                IF out'[t].status = "ok"
                THEN [k \in DOMAIN histories \cup {thread[t].session_id} |->
                         IF k = thread[t].session_id
                         THEN strip(thread[t].history_text
                                        \o Turn(thread[t].user_text, out'[t].reply))
                         ELSE histories[k]]
                ELSE histories

\* After two answered requests, one per thread: of different sessions, each
\* session holds the turn of its request; of one session, it holds the turn
\* of one request, or the turns of both, one after the other.
TwoRequestsRecorded ==
    \A t, u \in Threads :
        t # u /\ nreq = 2 /\ Answered(t) /\ Answered(u)
            /\ out[t].status = "ok" /\ out[u].status = "ok" =>
            IF out[t].session_id # out[u].session_id
            THEN /\ StoredFor(histories, out[t].session_id) = strip(TurnOf(t))
                 /\ StoredFor(histories, out[u].session_id) = strip(TurnOf(u))
            ELSE StoredFor(histories, out[t].session_id) \in
                     { strip(TurnOf(t)), strip(TurnOf(u)),
                       strip(TurnOf(t)) \o TurnOf(u), strip(TurnOf(u)) \o TurnOf(t) }

\* C15: under any interleaving of two concurrent requests (each reads the
\* history of its session, computes its reply, writes the history back),
\* requests for different sessions both end with their own turn recorded, and
\* requests for one session leave it with the value written by the request
\* that wrote last: the history that request read followed by its turn, never
\* a mix.
C15_LastWriteWins == []TwoRequestsRecorded /\ [][LastWriteWins]_vars

\* Two requests of one session overlapped: both were answered and the history
\* holds the turn of one of them only.
C15_Witness ==
    \E t, u \in Threads :
        /\ t # u /\ nreq = 2 /\ Answered(t) /\ Answered(u)
        /\ out[t].status = "ok" /\ out[u].status = "ok"
        /\ out[t].session_id = out[u].session_id
        /\ out[t].message # out[u].message
        /\ histories[out[t].session_id] = strip(TurnOf(t))

\* ------------------------------------------------------------------------
\* Fetches of the pricing endpoint (checked under Spec)
\* ------------------------------------------------------------------------

\* How often the request of thread t called get_prices_from_site.
Fetches(t) ==
    Cardinality({i \in 1..Len(out[t].calls) : out[t].calls[i][1] = "get_prices_from_site"})

\* Whether a request with this text reaches a pricing branch: small talk has
\* no reply for it and faq_answer gets as far as the pricing intent.
ReachesPricing(user_text, lang) ==
    /\ user_text # <<>>
    /\ handle_small_talk_and_meta(user_text, lang) = None
    /\ faq_answer(user_text, lang, HttpRaises).branch = "pricing"

ShortEnglish ==
    /\ FaqLang = "en" /\ Len(split(FaqUser)) <= 2
    /\ handle_small_talk_and_meta(FaqUser, "en") = None

\* The intents faq_answer tests in English up to the pricing one.
UpToPricing ==
    {"complaint", "services", "different", "offers", "contact", "coverage", "fragrance",
     "pricing"}

\* C17: for every English message of at most two words that small talk does
\* not match, faq_answer returns a reply, from the pricing branch or one
\* before it; the booking, hours and location branches and the generative
\* fallback are never reached, so a lone "pickup" or "location" gets a
\* pricing reply.
C17_ShortEnglishAnswered ==
    FaqDone /\ ShortEnglish =>
        /\ faq_call.result.exc = ""
        /\ faq_call.result.ret # None
        /\ faq_call.result.branch \in UpToPricing
        /\ FaqUser \in {S("pickup"), S("location")} => faq_call.result.branch = "pricing"

====
